---- MODULE Spec2Model ----
(***************************************************************************)
(* Model of the pod connectivity test suite (rcroyere/PVA):                *)
(*   models.py                      result aggregation (record, suite,     *)
(*                                  report and their derived statistics)   *)
(*   usecases/base_usecase.py       the plan: two phases, run_all_tests    *)
(*   handlers/cli_handler.py        the orchestrator and the run command   *)
(*   infrastructure/*_adapter.py    the protocol adapters and the kubectl  *)
(*                                  executor                               *)
(* Strings are sequences of tokens (<<>> is the empty string); an Optional *)
(* value is a set of at most one element (None is the empty set).          *)
(***************************************************************************)
EXTENDS Integers, Sequences, FiniteSets, TLC

VARIABLES
    cfg,              \* the run command's options and the resolved configuration
    pc,               \* position of the single control flow
    report,           \* TestExecutionReport being built
    usecase_classes,  \* the list the orchestrator iterates over
    idx,              \* index of the orchestrator's loop (1-based)
    usecase,          \* the plan under construction / execution
    results,          \* the running phase's local `results` list
    pos,              \* index of the next probe of the running phase
    exc,              \* the exception in flight, if any
    exit_code,        \* the process exit status, once the command ended
    faults,           \* number of non-nominal inputs drawn so far
    hist,             \* history of the run (what was attempted and returned)
    call,             \* the adapter call under study (adapter specification)
    clock             \* the wall clock, read by datetime.utcnow()

vars == <<cfg, pc, report, usecase_classes, idx, usecase, results, pos, exc,
          exit_code, faults, hist, call, clock>>

-----------------------------------------------------------------------------
(* Bounds of the model *)

MaxFaults == 1
MaxSuites == 2
MaxRecords == 4

-----------------------------------------------------------------------------
(* Optional values and strings *)

None == {}
Some(x) == {x}
IsNone(o) == o = {}
The(o) == CHOOSE x \in o : TRUE

Str(tok) == <<tok>>
EmptyStr == <<>>

\* `sub in s` for Python strings, on token sequences
Contains(s, sub) ==
    \E i \in 0..(Len(s) - Len(sub)) :
        \A j \in 1..Len(sub) : s[i + j] = sub[j]

\* truthiness of an Optional[str]: None and '' are falsy
Truthy(o) == ~IsNone(o) /\ The(o) # EmptyStr

-----------------------------------------------------------------------------
(* models.py *)

TestStatus == {"passed", "failed", "skipped", "error"}

TestResult(test_name, service_name, category, protocol, status, duration_ms, message, error, metadata) ==
    [test_name |-> test_name, service_name |-> service_name,
     category |-> category, protocol |-> protocol, status |-> status,
     duration_ms |-> duration_ms, message |-> message, error |-> error,
     metadata |-> metadata]

ServiceTestSuite(service_name, namespace) ==
    [service_name |-> service_name, namespace |-> namespace,
     results |-> <<>>, started_at |-> None, completed_at |-> None]

RECURSIVE CountStatus(_, _)
\* sum(1 for r in self.results if r.status == st)
CountStatus(rs, st) ==
    IF rs = <<>> THEN 0
    ELSE (IF Head(rs).status = st THEN 1 ELSE 0) + CountStatus(Tail(rs), st)

passed_count_counting_skipped(suite) ==
    CountStatus(suite.results, "passed") + CountStatus(suite.results, "skipped")

passed_count(suite) == CountStatus(suite.results, "passed")
failed_count(suite) == CountStatus(suite.results, "failed")
error_count(suite) == CountStatus(suite.results, "error")
skipped_count(suite) == CountStatus(suite.results, "skipped")
total_count(suite) == Len(suite.results)

RECURSIVE GCD(_, _)
GCD(a, b) == IF b = 0 THEN a ELSE GCD(b, a % b)

\* The float (p / t) * 100, kept exact as a reduced fraction <<num, den>>
Percent(p, t) == LET g == GCD(p * 100, t) IN <<(p * 100) \div g, t \div g>>
ZeroRate == <<0, 1>>

success_rate(suite) ==
    IF total_count(suite) = 0 THEN ZeroRate
    ELSE Percent(passed_count(suite), total_count(suite))

TestExecutionReport(environment, execution_id, started_at) ==
    [environment |-> environment, execution_id |-> execution_id,
     suites |-> <<>>, started_at |-> started_at, completed_at |-> None]

RECURSIVE SumOver(_, _, _)
\* sum(f(suite) for suite in suites): f is selected by name
SumOver(suites, what, i) ==
    IF i > Len(suites) THEN 0
    ELSE (CASE what = "total"  -> total_count(suites[i])
            [] what = "passed" -> passed_count(suites[i])
            [] what = "failed" -> failed_count(suites[i])
            [] what = "error"  -> error_count(suites[i]))
         + SumOver(suites, what, i + 1)

total_tests(rep) == SumOver(rep.suites, "total", 1)
total_passed(rep) == SumOver(rep.suites, "passed", 1)
total_failed(rep) == SumOver(rep.suites, "failed", 1)
total_errors(rep) == SumOver(rep.suites, "error", 1)

overall_success_rate(rep) ==
    IF total_tests(rep) = 0 THEN ZeroRate
    ELSE Percent(total_passed(rep), total_tests(rep))

\* TestExecutionReport.to_dict()["summary"]
ReportSummary(rep) ==
    [total_tests |-> total_tests(rep), passed |-> total_passed(rep),
     failed |-> total_failed(rep), errors |-> total_errors(rep),
     success_rate |-> overall_success_rate(rep)]

-----------------------------------------------------------------------------
(* infrastructure/base_adapter.py and Python exceptions *)

Exc(type, msg) == [type |-> type, msg |-> msg]
\* str(e)
StrOf(e) == e.msg

NoMetadata == [k \in {} |-> EmptyStr]

ConnectionResult(success, duration_ms, message, error, metadata) ==
    [success |-> success, duration_ms |-> duration_ms, message |-> message,
     error |-> error, metadata |-> metadata]

\* What a call of an adapter method does: return a value (an Outcome, or
\* Python's None), or raise.  `a` is the adapter object after the call.
Return(outcome, a) == [kind |-> "return", value |-> Some(outcome), exc |-> None, a |-> a]
ReturnNone(a) == [kind |-> "return", value |-> None, exc |-> None, a |-> a]
Raise(e, a) == [kind |-> "raise", value |-> None, exc |-> Some(e), a |-> a]

Whitespace == {" ", "\n"}
RECURSIVE LStrip(_)
LStrip(s) == IF s # <<>> /\ Head(s) \in Whitespace THEN LStrip(Tail(s)) ELSE s
RECURSIVE RStrip(_)
RStrip(s) ==
    IF s # <<>> /\ s[Len(s)] \in Whitespace THEN RStrip(SubSeq(s, 1, Len(s) - 1)) ELSE s
\* str.strip()
Strip(s) == LStrip(RStrip(s))
\* str.startswith(one character)
StartsWith(s, ch) == s # <<>> /\ s[1] = ch

-----------------------------------------------------------------------------
(* infrastructure/kubectl_adapter.py *)

\* exec_command: the triple (returncode, stdout, stderr), or the exception
\* subprocess.run lets through.  x is what kubectl exec did.
exec_command_letting_timeout_through(x) ==
    CASE x.kind = "completed" ->
            [raised |-> None, rc |-> x.rc, stdout |-> x.stdout, stderr |-> x.stderr]
      [] x.kind = "FileNotFoundError" ->
            [raised |-> None, rc |-> 1, stdout |-> EmptyStr,
             stderr |-> Str("kubectl not found")]
      [] OTHER ->
            [raised |-> Some(Exc(x.kind, x.msg)), rc |-> 0, stdout |-> EmptyStr,
             stderr |-> EmptyStr]
exec_command(x) ==
    CASE x.kind = "completed" ->
            [raised |-> None, rc |-> x.rc, stdout |-> x.stdout, stderr |-> x.stderr]
      [] x.kind = "TimeoutExpired" ->
            [raised |-> None, rc |-> 1, stdout |-> EmptyStr,
             stderr |-> Str("Command timed out after 30s")]
      [] x.kind = "FileNotFoundError" ->
            [raised |-> None, rc |-> 1, stdout |-> EmptyStr,
             stderr |-> Str("kubectl not found")]
      [] OTHER ->
            [raised |-> Some(Exc(x.kind, x.msg)), rc |-> 0, stdout |-> EmptyStr,
             stderr |-> EmptyStr]

KubeMeta(host, port, ctx) ==
    [host |-> host, port |-> port, pod |-> ctx.pod, namespace |-> ctx.namespace,
     mode |-> Str("kubectl")]

test_tcp(ctx, host, port, x) ==
    LET res == exec_command(x)
        success == res.rc = 0 /\ Contains(res.stdout, Str("ok"))
    IN  IF ~IsNone(res.raised)
        THEN ConnectionResult(FALSE, x.ms, None, Some(StrOf(The(res.raised))),
                              [host |-> host, port |-> port, mode |-> Str("kubectl")])
        ELSE ConnectionResult(success, x.ms,
                 Some(<<"TCP", host, ":", ToString(port),
                        IF success THEN "reachable from pod" ELSE "unreachable from pod",
                        ctx.pod>>),
                 IF ~success THEN Some(Strip(res.stderr)) ELSE None,
                 KubeMeta(host, port, ctx))

\* urlparse(url).hostname / .port; reading .port raises ValueError when the
\* port is not a number in 0..65535
UrlHost(url) == IF IsNone(url.hostname) THEN "" ELSE The(url.hostname)
UrlPortInvalid(url) == url.port_invalid
UrlPort_http_only(url) ==
    IF ~IsNone(url.port) /\ The(url.port) # 0 THEN The(url.port) ELSE 80
UrlPort(url) ==
    IF ~IsNone(url.port) /\ The(url.port) # 0 THEN The(url.port)
    ELSE IF url.scheme = "https" THEN 443 ELSE 80

test_http_fallback_tcp(ctx, url, elapsed_ms, x2) ==
    IF UrlPortInvalid(url)
    THEN ConnectionResult(FALSE, elapsed_ms, None,
             Some(<<"curl not available and TCP fallback failed:", "Port could not be cast">>),
             [url |-> url, mode |-> Str("kubectl")])
    ELSE LET result == test_tcp(ctx, UrlHost(url), UrlPort(url), x2)
             md == [k \in DOMAIN result.metadata \cup {"fallback", "url"} |->
                      CASE k = "fallback" -> Str("tcp (curl not available)")
                        [] k = "url" -> url
                        [] OTHER -> result.metadata[k]]
         IN  [result EXCEPT !.metadata = md,
                            !.message = IF Truthy(result.message)
                                        THEN Some(<<"HTTP fallback to TCP:">> \o The(result.message))
                                        ELSE result.message]

\* success = rc == 0 and status_code.startswith('2')
test_http_success_by_exit_code(rc, status_code) == rc = 0
test_http_success(rc, status_code) == rc = 0 /\ StartsWith(status_code, "2")

test_http(ctx, url, x, x2) ==
    LET res == exec_command(x)
        status_code == Strip(res.stdout)
        success == test_http_success(res.rc, status_code)
    IN  IF ~IsNone(res.raised)
        THEN ConnectionResult(FALSE, x.ms, None, Some(StrOf(The(res.raised))),
                              [url |-> url, mode |-> Str("kubectl")])
        ELSE IF res.rc = 127
        THEN test_http_fallback_tcp(ctx, url, x.ms, x2)
        ELSE ConnectionResult(success, x.ms,
                 Some(<<"HTTP", url.text, "->">> \o status_code \o <<"from pod", ctx.pod>>),
                 IF ~success THEN Some(Strip(res.stderr)) ELSE None,
                 [url |-> url, status_code |-> status_code, pod |-> ctx.pod,
                  namespace |-> ctx.namespace, mode |-> Str("kubectl")])

-----------------------------------------------------------------------------
(* infrastructure/http_adapter.py *)

\* f"{base_url.rstrip('/')}/{endpoint.lstrip('/')}", for a base_url that ends
\* without '/' and an endpoint given without its leading '/'
JoinUrl(url, endpoint) == [url EXCEPT !.text = url.text \o "/" \o endpoint]

accepts_status_below_400(status_code) == status_code < 400

\* `if response.status_code < 500:  # Accept any non-server-error`
accepts_status(status_code) == status_code < 500

HTTP_test_connectivity(a, r) ==
    IF ~IsNone(a.kubectl)
    THEN Return(test_http(The(a.kubectl), The(a.base_url), r.exec, r.exec2), a)
    ELSE CASE r.kind = "response" ->
                IF accepts_status(r.status_code)
                THEN Return(ConnectionResult(TRUE, r.ms,
                         Some(<<"Successfully connected to", The(a.base_url).text>>), None,
                         [url |-> The(a.base_url), status_code |-> r.status_code]), a)
                ELSE Return(ConnectionResult(FALSE, r.ms, None,
                         Some(<<"Server error: HTTP", ToString(r.status_code)>>),
                         NoMetadata), a)
           [] r.kind = "ConnectionError" ->
                Return(ConnectionResult(FALSE, r.ms, None,
                         Some(<<"Connection failed:">> \o r.msg), NoMetadata), a)
           [] r.kind = "Timeout" ->
                Return(ConnectionResult(FALSE, r.ms, None,
                         Some(<<"Connection timeout after", "30", "s">>), NoMetadata), a)
           [] OTHER ->
                Return(ConnectionResult(FALSE, r.ms, None,
                         Some(<<"HTTP connectivity test failed:">> \o r.msg), NoMetadata), a)

WithNote(outcome, note) ==
    [outcome EXCEPT !.metadata =
        [k \in DOMAIN outcome.metadata \cup {"note"} |->
            IF k = "note" THEN note ELSE outcome.metadata[k]]]

\* auth_config is None (the plans pass no argument) or a dict
HTTP_test_authentication(a, auth_config, r) ==
    IF ~IsNone(a.kubectl)
    THEN LET res == HTTP_test_connectivity(a, r)
         IN  Return(WithNote(The(res.value),
                        Str("token-based authentication not testable in kubectl mode")), a)
    ELSE IF IsNone(auth_config)
    THEN Return(ConnectionResult(FALSE, r.ms, None,
             Some(<<"HTTP authentication test failed:",
                    "'NoneType' object has no attribute 'get'">>), NoMetadata), a)
    ELSE CASE r.kind = "response" ->
                IF r.status_code = 200
                THEN Return(ConnectionResult(TRUE, r.ms,
                         Some(Str("HTTP authentication successful")), None,
                         [status_code |-> r.status_code]), a)
                ELSE IF r.status_code = 401
                THEN Return(ConnectionResult(FALSE, r.ms, None,
                         Some(Str("Authentication failed: Invalid credentials (401)")),
                         NoMetadata), a)
                ELSE IF r.status_code = 403
                THEN Return(ConnectionResult(FALSE, r.ms, None,
                         Some(Str("Authentication failed: Access forbidden (403)")),
                         NoMetadata), a)
                ELSE Return(ConnectionResult(FALSE, r.ms, None,
                         Some(<<"Unexpected status code:", ToString(r.status_code)>>),
                         NoMetadata), a)
           [] OTHER ->
                Return(ConnectionResult(FALSE, r.ms, None,
                         Some(<<"HTTP authentication test failed:">> \o r.msg), NoMetadata), a)

\* test_endpoint has no kubectl branch: it always uses the adapter's own session
HTTP_test_endpoint(a, endpoint, expected_status, r) ==
    IF IsNone(a.base_url)
    THEN Return(ConnectionResult(FALSE, r.ms, None,
             Some(<<"Endpoint test failed for", "GET", endpoint, ":",
                    "'NoneType' object has no attribute 'rstrip'">>), NoMetadata), a)
    ELSE CASE r.kind = "response" ->
                LET success == r.status_code = expected_status
                IN  Return(ConnectionResult(success, r.ms,
                        IF success THEN Some(<<"GET", endpoint, "returned", ToString(r.status_code)>>)
                                   ELSE None,
                        IF success THEN None
                        ELSE Some(<<"Expected", ToString(expected_status), "got",
                                    ToString(r.status_code)>>),
                        [endpoint |-> endpoint, status_code |-> r.status_code]), a)
           [] OTHER ->
                Return(ConnectionResult(FALSE, r.ms, None,
                         Some(<<"Endpoint test failed for", "GET", endpoint, ":">> \o r.msg),
                         NoMetadata), a)

HTTP_test_health_check(a, health_endpoint, r) ==
    IF IsNone(a.base_url)
    THEN \* the url is built before the try block
         Raise(Exc("AttributeError", Str("'NoneType' object has no attribute 'rstrip'")), a)
    ELSE IF ~IsNone(a.kubectl)
    THEN Return(test_http(The(a.kubectl), JoinUrl(The(a.base_url), health_endpoint),
                          r.exec, r.exec2), a)
    ELSE CASE r.kind = "response" ->
                LET is_healthy == r.status_code = 200
                IN  Return(ConnectionResult(is_healthy, r.ms,
                        IF is_healthy THEN Some(Str("Service is healthy"))
                        ELSE Some(<<"Service unhealthy:", ToString(r.status_code)>>),
                        None,
                        [health_endpoint |-> health_endpoint,
                         status_code |-> r.status_code]), a)
           [] OTHER ->
                Return(ConnectionResult(FALSE, r.ms, None,
                         Some(<<"Health check failed:">> \o r.msg), NoMetadata), a)

-----------------------------------------------------------------------------
(* infrastructure/kafka_adapter.py (the adapter never reads the '_kubectl'
   context: every call opens its own client connection) *)

Failed(r, prefix) ==
    ConnectionResult(FALSE, r.ms, None, Some(prefix \o r.msg), NoMetadata)

Kafka_test_connectivity(a, r) ==
    CASE r.kind = "ok" ->
            Return(ConnectionResult(TRUE, r.ms,
                     Some(Str("Successfully connected to Kafka.")), None,
                     [brokers |-> a.host]), [a EXCEPT !.connection = "open"])
      [] r.kind = "NoBrokersAvailable" ->
            Return(Failed(r, Str("No Kafka brokers available:")), a)
      [] OTHER -> Return(Failed(r, Str("Kafka connectivity failed:")), a)

Kafka_test_authentication(a, r) ==
    CASE r.kind = "ok" ->
            Return(ConnectionResult(TRUE, r.ms,
                     Some(Str("Kafka authentication successful")), None,
                     [bootstrap_connected |-> TRUE]), a)
      [] OTHER -> Return(Failed(r, Str("Kafka authentication failed:")), a)

Kafka_test_topic_access(a, topic_name, access_type, r) ==
    IF access_type \notin {"READ", "WRITE"}
    THEN \* neither branch is taken: the function falls off its end
         ReturnNone(a)
    ELSE CASE r.kind = "ok" ->
                Return(ConnectionResult(TRUE, r.ms,
                         Some(<<IF access_type = "READ" THEN "Read access to topic"
                                ELSE "Write access to topic", topic_name, "verified">>), None,
                         [topic |-> topic_name, access_type |-> access_type]), a)
           [] OTHER ->
                Return(Failed(r, <<"Topic access test failed for", topic_name, ":">>), a)

\* f"test_{int(time.time() * 1000)}"
TestId(now_ms) == <<"test_", ToString(now_ms)>>

\* r.kind: "ok" (the write succeeded and the read ended normally, r.read being
\* the test_id of each message read), "read_error" (the write succeeded, the
\* consumer raised) or the exception the producer raised
Kafka_test_produce_consume(a, topic_name, r) ==
    LET test_id == TestId(r.now_ms)
        consumed == \E i \in DOMAIN r.read : r.read[i] = test_id
    IN  CASE r.kind = "ok" ->
                IF consumed
                THEN Return(ConnectionResult(TRUE, r.ms,
                         Some(<<"Successfully produced and consumed message on topic",
                                topic_name>>), None,
                         [topic |-> topic_name, test_id |-> test_id]), a)
                ELSE Return(ConnectionResult(FALSE, r.ms, None,
                         Some(<<"Message produced but not consumed on topic", topic_name>>),
                         NoMetadata), a)
          [] OTHER -> Return(Failed(r, Str("Produce/consume test failed:")), a)

-----------------------------------------------------------------------------
(* infrastructure/rabbitmq_adapter.py *)

KubeStub_probing(text, metadata) == ConnectionResult(FALSE, 1, None, Some(Str(text)), metadata)

KubeStub(text, metadata) == ConnectionResult(TRUE, 0, Some(Str(text)), None, metadata)

RabbitMQ_test_connectivity(a, r) ==
    IF ~IsNone(a.kubectl)
    THEN Return(test_tcp(The(a.kubectl), a.host, a.port, r.exec), a)
    ELSE CASE r.kind = "ok" ->
                Return(ConnectionResult(TRUE, r.ms,
                         Some(<<"Successfully connected to RabbitMQ at", a.host>>), None,
                         [host |-> a.host]), [a EXCEPT !.connection = "open"])
           [] r.kind \in {"AMQPConnectionError", "ProbableAuthenticationError"} ->
                Return(Failed(r, Str("RabbitMQ connection failed:")), a)
           [] OTHER -> Return(Failed(r, Str("RabbitMQ connectivity test failed:")), a)

RabbitMQ_test_authentication(a, r) ==
    IF ~IsNone(a.kubectl)
    THEN LET res == RabbitMQ_test_connectivity(a, r)
         IN  Return(WithNote(The(res.value),
                 Str("authentication not testable in kubectl mode (no AMQP client in pod)")), a)
    ELSE CASE r.kind = "ok" ->
                Return(ConnectionResult(TRUE, r.ms,
                         Some(Str("RabbitMQ authentication successful")), None,
                         [vhost |-> Str("/")]), a)
           [] r.kind = "ProbableAuthenticationError" ->
                Return(Failed(r, Str("RabbitMQ authentication failed:")), a)
           [] OTHER -> Return(Failed(r, Str("RabbitMQ authentication test failed:")), a)

\* `if not self.connection or self.connection.is_closed: await self.test_connectivity()`
\* r.connect is what that nested connection attempt meets
Reconnect(a, r) ==
    IF a.connection = "open" THEN a
    ELSE IF r.connect = "ok" THEN [a EXCEPT !.connection = "open"] ELSE a

NoChannel == Str("'NoneType' object has no attribute")

RabbitMQ_test_queue_access(a, queue_name, r) ==
    IF ~IsNone(a.kubectl)
    THEN Return(KubeStub("Queue access test skipped in kubectl mode (no AMQP client in pod)",
                         [mode |-> Str("kubectl"), queue |-> queue_name]), a)
    ELSE LET b == Reconnect(a, r)
             prefix == <<"Queue access test failed for", queue_name, ":">>
         IN  IF b.connection # "open"
             THEN Return(ConnectionResult(FALSE, r.ms, None, Some(prefix \o NoChannel),
                                          NoMetadata), b)
             ELSE CASE r.kind = "ok" ->
                        Return(ConnectionResult(TRUE, r.ms,
                                 Some(<<"Queue", queue_name, "is accessible">>), None,
                                 [queue |-> queue_name, exists |-> TRUE]), b)
                    [] r.kind = "ChannelClosedByBroker" ->
                        Return(ConnectionResult(FALSE, r.ms, None,
                                 Some(<<"Queue", queue_name,
                                        "does not exist or is not accessible">>),
                                 NoMetadata), b)
                    [] OTHER -> Return(Failed(r, prefix), b)

\* r.kind: "ok" (published; r.read is the test_id of each message in the
\* queue), "read_error" (published, basic_get or the cleanup raised)
\* or the exception the declaration or the publication raised
RabbitMQ_test_publish_consume(a, queue_name, r) ==
    IF ~IsNone(a.kubectl)
    THEN Return(KubeStub("Publish/consume test skipped in kubectl mode (no AMQP client in pod)",
                         [mode |-> Str("kubectl"), queue |-> queue_name]), a)
    ELSE LET b == Reconnect(a, r)
             test_id == TestId(r.now_ms)
             \* one basic_get: the message at the head of the queue, if any
             consumed == r.read # <<>> /\ r.read[1] = test_id
         IN  IF b.connection # "open"
             THEN Return(ConnectionResult(FALSE, r.ms, None,
                            Some(Str("Publish/consume test failed:") \o NoChannel),
                            NoMetadata), b)
             ELSE CASE r.kind = "ok" ->
                        IF consumed
                        THEN Return(ConnectionResult(TRUE, r.ms,
                                 Some(<<"Successfully published and consumed message on queue",
                                        queue_name>>), None,
                                 [queue |-> queue_name, test_id |-> test_id]), b)
                        ELSE Return(ConnectionResult(FALSE, r.ms, None,
                                 Some(<<"Message published but not consumed on queue",
                                        queue_name>>), NoMetadata), b)
                    [] OTHER -> Return(Failed(r, Str("Publish/consume test failed:")), b)

-----------------------------------------------------------------------------
(* infrastructure/postgresql_adapter.py *)

PostgreSQL_test_connectivity(a, r) ==
    IF ~IsNone(a.kubectl)
    THEN Return(test_tcp(The(a.kubectl), a.host, a.port, r.exec), a)
    ELSE CASE r.kind = "ok" ->
                Return(ConnectionResult(TRUE, r.ms,
                         Some(Str("Successfully connected to PostgreSQL database")), None,
                         [host |-> a.host]), [a EXCEPT !.connection = "open"])
           [] r.kind = "OperationalError" ->
                Return(Failed(r, Str("PostgreSQL connection failed:")), a)
           [] OTHER -> Return(Failed(r, Str("PostgreSQL connectivity test failed:")), a)

PostgreSQL_test_authentication(a, r) ==
    IF ~IsNone(a.kubectl)
    THEN LET res == PostgreSQL_test_connectivity(a, r)
         IN  Return(WithNote(The(res.value),
                 Str("authentication not testable in kubectl mode (no psql client in pod)")), a)
    ELSE CASE r.kind = "ok" ->
                Return(ConnectionResult(TRUE, r.ms,
                         Some(Str("PostgreSQL authentication successful")), None,
                         [current_user |-> Str("user")]), a)
           [] r.kind = "OperationalError" ->
                IF Contains(r.msg, Str("authentication failed"))
                THEN Return(ConnectionResult(FALSE, r.ms, None,
                         Some(Str("PostgreSQL authentication failed: Invalid credentials")),
                         NoMetadata), a)
                ELSE Return(Failed(r, Str("PostgreSQL authentication failed:")), a)
           [] OTHER -> Return(Failed(r, Str("PostgreSQL authentication test failed:")), a)

PostgreSQL_test_table_access(a, table_name, r) ==
    IF ~IsNone(a.kubectl)
    THEN Return(KubeStub("Table access test skipped in kubectl mode (no psql client in pod)",
                         [mode |-> Str("kubectl"), table |-> table_name]), a)
    ELSE LET b == Reconnect(a, r)
         IN  IF b.connection # "open"
             THEN Return(ConnectionResult(FALSE, r.ms, None,
                            Some(Str("Table access test failed:") \o NoChannel), NoMetadata), b)
             ELSE CASE r.kind = "ok" ->
                        Return(ConnectionResult(TRUE, r.ms,
                                 Some(<<"Table", table_name, "is accessible">>), None,
                                 [table |-> table_name, exists |-> TRUE]), b)
                    [] r.kind = "absent" ->
                        Return(ConnectionResult(FALSE, r.ms, None,
                                 Some(<<"Table", table_name, "does not exist">>), NoMetadata), b)
                    [] r.kind = "OperationalError" ->
                        Return(Failed(r, <<"Table access test failed for", table_name, ":">>), b)
                    [] OTHER -> Return(Failed(r, Str("Table access test failed:")), b)

PostgreSQL_test_query_performance(a, query, r) ==
    IF ~IsNone(a.kubectl)
    THEN Return(KubeStub("Query performance test skipped in kubectl mode (no psql client in pod)",
                         [mode |-> Str("kubectl"), query |-> query]), a)
    ELSE LET b == Reconnect(a, r)
         IN  IF b.connection # "open"
             THEN Return(ConnectionResult(FALSE, r.ms, None,
                            Some(Str("Query performance test failed:") \o NoChannel),
                            NoMetadata), b)
             ELSE CASE r.kind = "ok" ->
                        Return(ConnectionResult(TRUE, r.ms,
                                 Some(Str("Query executed successfully")), None,
                                 [query |-> query]), b)
                    [] OTHER -> Return(Failed(r, Str("Query performance test failed:")), b)

-----------------------------------------------------------------------------
(* infrastructure/sftp_adapter.py (no '_kubectl' branch either) *)

SFTP_test_connectivity(a, r) ==
    CASE r.kind = "ok" ->
            Return(ConnectionResult(TRUE, r.ms,
                     Some(<<"Successfully connected to SFTP server", a.host>>), None,
                     [host |-> a.host, port |-> a.port]), [a EXCEPT !.connection = "open"])
      [] r.kind = "AuthenticationException" ->
            Return(Failed(r, Str("SFTP authentication failed:")), a)
      [] r.kind = "SSHException" ->
            Return(Failed(r, Str("SFTP connection failed:")), a)
      [] OTHER -> Return(Failed(r, Str("SFTP connectivity test failed:")), a)

SFTP_test_authentication(a, r) ==
    CASE r.kind = "ok" ->
            Return(ConnectionResult(TRUE, r.ms,
                     Some(Str("SFTP authentication successful")), None,
                     [host |-> a.host]), a)
      [] r.kind = "AuthenticationException" ->
            Return(ConnectionResult(FALSE, r.ms, None,
                     Some(Str("SFTP authentication failed: Invalid credentials")),
                     NoMetadata), a)
      [] OTHER -> Return(Failed(r, Str("SFTP authentication test failed:")), a)

SFTP_test_directory_access(a, directory_path, r) ==
    LET b == Reconnect(a, r)
    IN  IF b.connection # "open"
        THEN Return(ConnectionResult(FALSE, r.ms, None,
                       Some(Str("Directory access test failed:") \o NoChannel), NoMetadata), b)
        ELSE CASE r.kind = "ok" ->
                    Return(ConnectionResult(TRUE, r.ms,
                             Some(<<"Directory", directory_path, "is accessible">>), None,
                             [directory |-> directory_path]), b)
               [] r.kind = "FileNotFoundError" ->
                    Return(ConnectionResult(FALSE, r.ms, None,
                             Some(<<"Directory", directory_path, "does not exist">>),
                             NoMetadata), b)
               [] r.kind = "PermissionError" ->
                    Return(ConnectionResult(FALSE, r.ms, None,
                             Some(<<"Permission denied for directory", directory_path>>),
                             NoMetadata), b)
               [] OTHER -> Return(Failed(r, Str("Directory access test failed:")), b)

SFTP_test_file_upload_download(a, test_directory, r) ==
    LET b == Reconnect(a, r)
    IN  IF b.connection # "open"
        THEN Return(ConnectionResult(FALSE, r.ms, None,
                       Some(Str("File upload/download test failed:") \o NoChannel),
                       NoMetadata), b)
        ELSE CASE r.kind = "ok" ->
                    Return(ConnectionResult(TRUE, r.ms,
                             Some(<<"Successfully uploaded and downloaded file to",
                                    test_directory>>), None,
                             [directory |-> test_directory]), b)
               [] r.kind = "mismatch" ->
                    Return(ConnectionResult(FALSE, r.ms, None,
                             Some(Str("File content mismatch after upload/download")),
                             NoMetadata), b)
               [] OTHER -> Return(Failed(r, Str("File upload/download test failed:")), b)

-----------------------------------------------------------------------------
(* Method dispatch on an adapter object, and what the outside world can
   answer to each call *)

\* close() of each adapter.  r is what the close() of the underlying client
\* object does: r.kind = "ok", or an exception that leaves the transport
\* r.transport.  connection is "none" while the attribute is None, "open" once a
\* probe has stored a connected client, "closed" after that client was closed
\* (the attribute is never reset to None).
AfterFailedClose(a, r) ==
    [a EXCEPT !.connection = IF a.connection = "open" THEN r.transport ELSE a.connection]

\* no try: admin_client.close() is called whenever the attribute is set
Kafka_close(a, r) ==
    IF a.connection = "none" THEN ReturnNone(a)
    ELSE IF r.kind = "ok" THEN ReturnNone([a EXCEPT !.connection = "closed"])
    ELSE Raise(Exc(r.kind, r.msg), AfterFailedClose(a, r))

\* try: if self.connection and not self.connection.is_closed: close()
RabbitMQ_close(a, r) ==
    IF a.connection # "open" THEN ReturnNone(a)
    ELSE IF r.kind = "ok" THEN ReturnNone([a EXCEPT !.connection = "closed"])
    ELSE ReturnNone(AfterFailedClose(a, r))

\* try: if self.connection and not self.connection.closed: close()
PostgreSQL_close(a, r) ==
    IF a.connection # "open" THEN ReturnNone(a)
    ELSE IF r.kind = "ok" THEN ReturnNone([a EXCEPT !.connection = "closed"])
    ELSE ReturnNone(AfterFailedClose(a, r))

\* try: if self.sftp: self.sftp.close(); if self.client: self.client.close()
SFTP_close(a, r) ==
    IF a.connection = "none" THEN ReturnNone(a)
    ELSE IF r.kind = "ok" THEN ReturnNone([a EXCEPT !.connection = "closed"])
    ELSE ReturnNone(AfterFailedClose(a, r))

\* try: self.session.close()
HTTP_close(a, r) == ReturnNone(a)

Methods(type) ==
    CASE type = "HTTP" ->
            {"test_connectivity", "test_authentication", "test_endpoint", "test_health_check"}
      [] type = "Kafka" ->
            {"test_connectivity", "test_authentication", "test_topic_access",
             "test_produce_consume"}
      [] type = "RabbitMQ" ->
            {"test_connectivity", "test_authentication", "test_queue_access",
             "test_publish_consume"}
      [] type = "PostgreSQL" ->
            {"test_connectivity", "test_authentication", "test_table_access",
             "test_query_performance"}
      [] type = "SFTP" ->
            {"test_connectivity", "test_authentication", "test_directory_access",
             "test_file_upload_download"}

ClassName(type) == "'" \o type \o "Adapter'"

\* a.op(args) with the outside world answering r
Invoke(a, op, args, r) ==
    IF op = "close"
    THEN CASE a.type = "HTTP" -> HTTP_close(a, r)
           [] a.type = "Kafka" -> Kafka_close(a, r)
           [] a.type = "RabbitMQ" -> RabbitMQ_close(a, r)
           [] a.type = "PostgreSQL" -> PostgreSQL_close(a, r)
           [] a.type = "SFTP" -> SFTP_close(a, r)
    ELSE IF op \notin Methods(a.type)
    THEN Raise(Exc("AttributeError",
                   <<ClassName(a.type), "object has no attribute", op>>), a)
    ELSE CASE a.type = "HTTP" ->
                (CASE op = "test_connectivity" -> HTTP_test_connectivity(a, r)
                   [] op = "test_authentication" ->
                        HTTP_test_authentication(a, args.auth_config, r)
                   [] op = "test_endpoint" ->
                        HTTP_test_endpoint(a, args.name, args.expected_status, r)
                   [] op = "test_health_check" -> HTTP_test_health_check(a, args.name, r))
           [] a.type = "Kafka" ->
                (CASE op = "test_connectivity" -> Kafka_test_connectivity(a, r)
                   [] op = "test_authentication" -> Kafka_test_authentication(a, r)
                   [] op = "test_topic_access" ->
                        Kafka_test_topic_access(a, args.name, args.access_type, r)
                   [] op = "test_produce_consume" ->
                        Kafka_test_produce_consume(a, args.name, r))
           [] a.type = "RabbitMQ" ->
                (CASE op = "test_connectivity" -> RabbitMQ_test_connectivity(a, r)
                   [] op = "test_authentication" -> RabbitMQ_test_authentication(a, r)
                   [] op = "test_queue_access" -> RabbitMQ_test_queue_access(a, args.name, r)
                   [] op = "test_publish_consume" ->
                        RabbitMQ_test_publish_consume(a, args.name, r))
           [] a.type = "PostgreSQL" ->
                (CASE op = "test_connectivity" -> PostgreSQL_test_connectivity(a, r)
                   [] op = "test_authentication" -> PostgreSQL_test_authentication(a, r)
                   [] op = "test_table_access" ->
                        PostgreSQL_test_table_access(a, args.name, r)
                   [] op = "test_query_performance" ->
                        PostgreSQL_test_query_performance(a, args.name, r))
           [] a.type = "SFTP" ->
                (CASE op = "test_connectivity" -> SFTP_test_connectivity(a, r)
                   [] op = "test_authentication" -> SFTP_test_authentication(a, r)
                   [] op = "test_directory_access" ->
                        SFTP_test_directory_access(a, args.name, r)
                   [] op = "test_file_upload_download" ->
                        SFTP_test_file_upload_download(a, args.name, r))

Args(name) == [name |-> name, access_type |-> "READ", auth_config |-> None,
               expected_status |-> 200]
NoArgs == Args("")

\* What kubectl exec of a command did
Completed(rc, stdout, stderr) ==
    [kind |-> "completed", rc |-> rc, stdout |-> stdout, stderr |-> stderr,
     msg |-> EmptyStr, ms |-> 1]
ExecFailure(kind, msg) ==
    [kind |-> kind, rc |-> 0, stdout |-> EmptyStr, stderr |-> EmptyStr, msg |-> msg, ms |-> 1]

TcpOk == Completed(0, <<"ok", "\n">>, EmptyStr)
ExecTcp ==
    {TcpOk,
     Completed(0, <<"fail", "\n">>, EmptyStr),
     Completed(1, EmptyStr, <<"Error from server (NotFound): pods not found", "\n">>),
     ExecFailure("TimeoutExpired", EmptyStr),
     ExecFailure("FileNotFoundError", EmptyStr),
     ExecFailure("PermissionError", Str("Permission denied"))}

HttpOk == Completed(0, <<"2", "0", "0">>, EmptyStr)
ExecHttp ==
    {HttpOk,
     Completed(0, <<"3", "0", "1">>, EmptyStr),
     Completed(22, <<"4", "0", "4">>, EmptyStr),
     Completed(22, <<"5", "0", "3">>, EmptyStr),
     Completed(7, <<"0", "0", "0">>, EmptyStr),
     Completed(127, EmptyStr, <<"curl: not found", "\n">>),
     ExecFailure("TimeoutExpired", EmptyStr)}

\* What the outside world answers to a direct call
Resp(kind, msg) ==
    [kind |-> kind, msg |-> msg, ms |-> 1, status_code |-> 0, now_ms |-> 1,
     read |-> <<>>, connect |-> "ok", exec |-> TcpOk, exec2 |-> TcpOk,
     transport |-> "closed"]
Ok == Resp("ok", EmptyStr)
Status(code) == [Resp("response", EmptyStr) EXCEPT !.status_code = code]
RoundTrip(now_ms, read) == [Ok EXCEPT !.now_ms = now_ms, !.read = read]
ViaExec(x, x2) == [Ok EXCEPT !.exec = x, !.exec2 = x2]

IsRoundTrip(op) == op \in {"test_produce_consume", "test_publish_consume"}
NeedsConnection(op) ==
    op \in {"test_queue_access", "test_publish_consume", "test_table_access",
            "test_query_performance", "test_directory_access", "test_file_upload_download"}
ViaTcp(a, op) ==
    /\ ~IsNone(a.kubectl) /\ a.type \in {"RabbitMQ", "PostgreSQL"}
    /\ op \in {"test_connectivity", "test_authentication"}
ViaHttp(a, op) ==
    /\ ~IsNone(a.kubectl) /\ a.type = "HTTP"
    /\ op \in {"test_connectivity", "test_authentication", "test_health_check"}
Stubbed(a, op) ==
    /\ ~IsNone(a.kubectl) /\ a.type \in {"RabbitMQ", "PostgreSQL"}
    /\ op \notin {"test_connectivity", "test_authentication"}

\* The answer when every dependency is up and accepts the credentials
Nominal(a, op) ==
    IF ViaHttp(a, op) THEN ViaExec(HttpOk, TcpOk)
    ELSE IF ViaTcp(a, op) THEN ViaExec(TcpOk, TcpOk)
    ELSE IF a.type = "HTTP" THEN Status(200)
    ELSE IF IsRoundTrip(op) THEN RoundTrip(1, <<TestId(1)>>)
    ELSE Ok

ErrorKinds(a, op) ==
    CASE a.type = "HTTP" -> {"ConnectionError", "Timeout", "Exception"}
      [] a.type = "Kafka" ->
            IF op = "test_connectivity" THEN {"NoBrokersAvailable", "KafkaError"}
            ELSE IF IsRoundTrip(op) THEN {"KafkaTimeoutError", "read_error"}
            ELSE {"KafkaError"}
      [] a.type = "RabbitMQ" ->
            IF op \in {"test_connectivity", "test_authentication"}
            THEN {"AMQPConnectionError", "ProbableAuthenticationError", "Exception"}
            ELSE IF IsRoundTrip(op) THEN {"AMQPChannelError", "read_error"}
            ELSE {"ChannelClosedByBroker", "AMQPChannelError"}
      [] a.type = "PostgreSQL" ->
            IF op = "test_table_access" THEN {"absent", "OperationalError", "Exception"}
            ELSE {"OperationalError", "Exception"}
      [] a.type = "SFTP" ->
            IF op = "test_directory_access"
            THEN {"FileNotFoundError", "PermissionError", "SSHException"}
            ELSE IF op = "test_file_upload_download" THEN {"mismatch", "SSHException"}
            ELSE {"AuthenticationException", "SSHException", "Exception"}

\* Every answer the call can meet; msgs are the texts an exception may carry
Responses(a, op, msgs) ==
    IF op = "close"
    THEN {Ok} \cup {[Resp("Exception", m) EXCEPT !.transport = t] :
                        m \in msgs, t \in {"open", "closed"}}
    ELSE IF op \notin Methods(a.type) \/ Stubbed(a, op) THEN {Ok}
    ELSE IF ViaHttp(a, op)
    THEN UNION {{ViaExec(x, x2) :
                    x2 \in IF x.kind = "completed" /\ x.rc = 127 THEN ExecTcp ELSE {TcpOk}} :
                x \in ExecHttp}
    ELSE IF ViaTcp(a, op)
    THEN {ViaExec(x, TcpOk) : x \in ExecTcp}
    ELSE {Nominal(a, op)}
         \cup {Resp(k, m) : k \in ErrorKinds(a, op), m \in msgs}
         \cup (IF a.type = "HTTP" THEN {Status(c) : c \in {200, 401, 404, 503}} ELSE {})
         \cup (IF IsRoundTrip(op)
               THEN {RoundTrip(t, rd) : t \in {1, 2},
                                        rd \in {<<>>, <<TestId(1)>>, <<TestId(2), TestId(1)>>}}
               ELSE {})
         \cup (IF NeedsConnection(op) THEN {[Ok EXCEPT !.connect = "fail"]} ELSE {})

-----------------------------------------------------------------------------
(* The plans (usecases/) *)

Url(text, scheme, hostname, port) ==
    [text |-> text, scheme |-> scheme, hostname |-> Some(hostname), port |-> port,
     port_invalid |-> FALSE]

\* An adapter object right after its constructor; config is what self._k(...)
\* returned: the dependency's own section plus, possibly, the '_kubectl' context
Adapter(type, host, port, base_url, kubectl) ==
    [type |-> type, host |-> host, port |-> port, base_url |-> base_url,
     \* KafkaAdapter and SFTPAdapter do not read config['_kubectl']
     kubectl |-> IF type \in {"Kafka", "SFTP"} THEN None ELSE kubectl,
     connection |-> "none"]

HttpAdapter(url, kubectl) == Adapter("HTTP", UrlHost(url), UrlPort(url), Some(url), kubectl)

Probe(adapter, op, args, test_name, category, protocol) ==
    [adapter |-> adapter, op |-> op, args |-> args, test_name |-> test_name,
     category |-> category, protocol |-> protocol]

\* The registration tables of the orchestrator, restricted to three plans
\* (one of the first list, two of the second, in their order in the source)
CFK_USECASES == <<"ObservabilityApiUseCase">>
CORE_USECASES == <<"SchedulerUseCase", "RabbitConsumerUseCase">>
ALL_USECASES == CFK_USECASES \o CORE_USECASES
USECASE_MAP ==
    [n \in {"observability-api", "scheduler", "rabbit-consumer"} |->
        CASE n = "observability-api" -> "ObservabilityApiUseCase"
          [] n = "scheduler" -> "SchedulerUseCase"
          [] n = "rabbit-consumer" -> "RabbitConsumerUseCase"]

ServiceName(cls) ==
    CASE cls = "ObservabilityApiUseCase" -> "observability-api"
      [] cls = "SchedulerUseCase" -> "scheduler"
      [] cls = "RabbitConsumerUseCase" -> "rabbit-consumer"

Namespace(cls) ==
    IF cls = "ObservabilityApiUseCase" THEN "cfk-shared" ELSE "webapp-apis"

\* The adapters each plan's __init__ creates; k is the kubectl context _k injects
PlanAdapters(cls, k) ==
    CASE cls = "ObservabilityApiUseCase" ->
            [n \in {"kafka_adapter"} |-> Adapter("Kafka", "kafka", 9092, None, k)]
      [] cls = "RabbitConsumerUseCase" ->
            [n \in {"rabbitmq_adapter"} |-> Adapter("RabbitMQ", "rabbitmq", 5672, None, k)]
      [] cls = "SchedulerUseCase" ->
            [n \in {"rabbitmq_adapter", "pg_core_adapter", "pg_gateway_adapter", "sftp_adapter",
                    "keycloak_adapter", "kms_adapter", "search_adapter", "mandrill_adapter"} |->
                CASE n = "rabbitmq_adapter" -> Adapter("RabbitMQ", "rabbitmq", 5672, None, k)
                  [] n = "pg_core_adapter" -> Adapter("PostgreSQL", "core-db", 5432, None, k)
                  [] n = "pg_gateway_adapter" -> Adapter("PostgreSQL", "gateway-db", 5432, None, k)
                  [] n = "sftp_adapter" -> Adapter("SFTP", "sftp", 22, None, k)
                  [] n = "keycloak_adapter" ->
                        HttpAdapter(Url("https://keycloak:8443", "https", "keycloak", Some(8443)), k)
                  [] n = "kms_adapter" ->
                        HttpAdapter(Url("http://kms-api:8080", "http", "kms-api", Some(8080)), k)
                  [] n = "search_adapter" ->
                        HttpAdapter(Url("http://search-engine-api:9200", "http",
                                        "search-engine-api", Some(9200)), k)
                  [] n = "mandrill_adapter" ->
                        HttpAdapter(Url("https://mandrillapp.com", "https", "mandrillapp.com",
                                        None), k)]

Conn(adapter, test_name, protocol) ==
    Probe(adapter, "test_connectivity", NoArgs, test_name, "connectivity", protocol)
Auth(adapter, test_name, protocol) ==
    Probe(adapter, "test_authentication", NoArgs, test_name, "authentication", protocol)
Func(adapter, op, name, test_name, protocol) ==
    Probe(adapter, op, Args(name), test_name, "functional", protocol)

\* The adapter calls of run_connectivity_tests, in order
ConnectivityProbes(cls, disabled) ==
    CASE cls = "ObservabilityApiUseCase" ->
            IF disabled THEN <<>>
            ELSE <<Conn("kafka_adapter", "kafka_connectivity", "kafka"),
                   Auth("kafka_adapter", "kafka_authentication", "kafka")>>
      [] cls = "RabbitConsumerUseCase" ->
            <<Conn("rabbitmq_adapter", "rabbitmq_connectivity", "rabbitmq"),
              Auth("rabbitmq_adapter", "rabbitmq_authentication", "rabbitmq")>>
      [] cls = "SchedulerUseCase" ->
            <<Conn("rabbitmq_adapter", "rabbitmq_connectivity", "rabbitmq"),
              Auth("rabbitmq_adapter", "rabbitmq_authentication", "rabbitmq"),
              Conn("pg_core_adapter", "postgresql_coredb_connectivity", "postgresql"),
              Conn("pg_gateway_adapter", "postgresql_gateway_connectivity", "postgresql"),
              Conn("sftp_adapter", "sftp_connectivity", "sftp"),
              Conn("keycloak_adapter", "keycloak_connectivity", "https"),
              Conn("kms_adapter", "kms_api_connectivity", "http"),
              Conn("search_adapter", "search_engine_connectivity", "elasticsearch"),
              Conn("mandrill_adapter", "mandrill_connectivity", "https")>>

\* The adapter calls of run_functional_tests, in order
FunctionalProbes(cls, disabled) ==
    CASE cls = "ObservabilityApiUseCase" ->
            IF disabled THEN <<>>
            ELSE <<Probe("kafka_adapter", "test_topic_access",
                         [Args("dev.observability.flow.tracking") EXCEPT !.access_type = "WRITE"],
                         "kafka_topic_write_dev.observability.flow.tracking", "functional",
                         "kafka")>>
      [] cls = "RabbitConsumerUseCase" ->
            <<Func("rabbitmq_adapter", "test_queue_access", "core.consumer.queue",
                   "rabbitmq_queue_consumer", "rabbitmq"),
              Func("rabbitmq_adapter", "test_publish_consume", "core.consumer.queue",
                   "rabbitmq_publish_consume_e2e", "rabbitmq")>>
      [] cls = "SchedulerUseCase" ->
            <<Func("rabbitmq_adapter", "test_queue_access", "core.scheduled.jobs",
                   "rabbitmq_queue_scheduled_jobs", "rabbitmq"),
              Func("sftp_adapter", "test_file_operations", "",
                   "sftp_file_operations", "sftp")>>

\* ObservabilityApiUseCase._skipped
Skipped(service_name, test_name, protocol) ==
    TestResult(test_name, service_name, "connectivity", protocol, "skipped", 0,
               Some(Str("Service disabled - skipped")), None, NoMetadata)

\* What a phase of a disabled plan returns at once
EarlyReturn(cls, phase, disabled) ==
    IF cls = "ObservabilityApiUseCase" /\ disabled
    THEN <<Skipped(ServiceName(cls),
                   IF phase = "connectivity" THEN "kafka_connectivity" ELSE "kafka_topic_write",
                   "kafka")>>
    ELSE <<>>

PhaseProbes(cls, phase, disabled) ==
    IF phase = "connectivity" THEN ConnectivityProbes(cls, disabled)
    ELSE FunctionalProbes(cls, disabled)

-----------------------------------------------------------------------------
(* usecases/base_usecase.py *)

\* KubectlAdapter.find_pod as BaseServiceUseCase.__init__ sees it: the pod name,
\* or the RuntimeError find_pod raises (no running pod, timeout, no kubectl)
KubectlCtx(namespace, found) ==
    CASE found.kind = "pod" -> Some([namespace |-> namespace, pod |-> found.pod])
      [] found.kind = "RuntimeError" -> None

\* BaseServiceUseCase.__init__ followed by the subclass's adapter construction;
\* _k passes the context on only in kubectl mode and when find_pod succeeded
UseCase(cls, mode, found) ==
    LET kubectl_mode == mode = "kubectl"
        ctx == IF kubectl_mode THEN KubectlCtx(Namespace(cls), found) ELSE None
    IN  [cls |-> cls, service_name |-> ServiceName(cls), namespace |-> Namespace(cls),
         kubectl_mode |-> kubectl_mode, kubectl_ctx |-> ctx,
         test_suite |-> ServiceTestSuite(ServiceName(cls), Namespace(cls)),
         adapters |-> PlanAdapters(cls, ctx), phase |-> "none"]

MergeMetadata(base, override) ==
    [k \in DOMAIN base \cup DOMAIN override |->
        IF k \in DOMAIN override THEN override[k] ELSE base[k]]

create_test_result_error_on_exception(service_name, test_name, category, protocol, connection_result, metadata) ==
    TestResult(test_name, service_name, category, protocol,
               IF connection_result.success THEN "passed"
               ELSE IF IsNone(connection_result.error) THEN "failed" ELSE "error",
               connection_result.duration_ms, connection_result.message,
               connection_result.error,
               MergeMetadata(connection_result.metadata, metadata))

create_test_result(service_name, test_name, category, protocol, connection_result, metadata) ==
    TestResult(test_name, service_name, category, protocol,
               IF connection_result.success THEN "passed" ELSE "failed",
               connection_result.duration_ms, connection_result.message,
               connection_result.error,
               MergeMetadata(connection_result.metadata, metadata))

SyntheticError(service_name, e) ==
    TestResult("test_suite_execution", service_name, "functional", "http", "error", 0,
               None, Some(StrOf(e)), NoMetadata)

run_all_tests_except_replacing(suite, service_name, e) ==
    [suite |-> [suite EXCEPT !.results = <<SyntheticError(service_name, e)>>],
     raised |-> None]

run_all_tests_reraising(suite, service_name, e) ==
    [suite |-> [suite EXCEPT !.results = Append(@, SyntheticError(service_name, e))],
     raised |-> Some(e)]

\* The `except Exception as e` clause of run_all_tests: the suite afterwards,
\* and the exception that leaves the clause, if any
run_all_tests_except(suite, service_name, e) ==
    [suite |-> [suite EXCEPT !.results = Append(@, SyntheticError(service_name, e))],
     raised |-> None]

-----------------------------------------------------------------------------
(* handlers/cli_handler.py: the run command and the orchestrator *)

\* The options of `run` (--all, --service, --category, --mode) and the one
\* configuration switch a modelled plan reads (services.observability-api.disabled)
Configs ==
    [run_all : BOOLEAN,
     service : {None, Some("scheduler"), Some("rabbit-consumer"), Some("no-such-service")},
     category : {None, Some("cfk"), Some("core"), Some("kafka")},
     mode : {"direct", "kubectl"},
     disabled : BOOLEAN]

\* What has happened so far, for stating properties: the records the probes
\* produced, what each phase returned or raised, the plans the loop reached, and
\* the plans the orchestrator skipped (with the report's suites at that moment)
NoHistory == [attempted |-> <<>>, phases |-> <<>>, dispatched |-> <<>>, skipped |-> <<>>]

IdleInit ==
    /\ report = TestExecutionReport("dev", "uuid4", None)
    /\ usecase_classes = <<>>
    /\ idx = 0
    /\ usecase = None
    /\ results = <<>>
    /\ pos = 0
    /\ exc = None
    /\ exit_code = None
    /\ faults = 0
    /\ hist = NoHistory
    /\ call = None
    /\ clock = 0

Init ==
    /\ cfg \in {c \in Configs :
                  \* one canonical value for the options the command does not read
                  /\ c.run_all => IsNone(c.service) /\ IsNone(c.category)
                  /\ ~IsNone(c.service) => IsNone(c.category)
                  \* the switch is read by ObservabilityApiUseCase alone
                  /\ (~IsNone(c.service) \/ c.category = Some("core")
                        \/ (~c.run_all /\ IsNone(c.category))) => c.disabled
                  \* a category outside the two lists selects every plan, as
                  \* --all does: it is tried with the default settings
                  /\ c.category = Some("kafka") => c.disabled /\ c.mode = "direct"}
    /\ pc = "cli"
    /\ IdleInit

Tick == clock' = clock + 1
Now == Some(clock + 1)

StartDispatch(classes) ==
    /\ report' = TestExecutionReport("dev", "uuid4", Now)
    /\ Tick
    /\ usecase_classes' = classes
    /\ idx' = 1
    /\ pc' = "loop"
    /\ UNCHANGED <<cfg, usecase, results, pos, exc, exit_code, faults, hist, call>>

\* run --all: CLIHandler.run_all_tests up to its loop
CliRunAll ==
    /\ pc = "cli" /\ cfg.run_all
    /\ StartDispatch(ALL_USECASES)

CategoryClasses(category) ==
    IF category = "cfk" THEN CFK_USECASES
    ELSE IF category = "core" THEN CORE_USECASES
    ELSE ALL_USECASES

\* run --category c: CLIHandler.run_category_tests up to its loop
CliRunCategory ==
    /\ pc = "cli" /\ ~cfg.run_all /\ IsNone(cfg.service) /\ ~IsNone(cfg.category)
    /\ StartDispatch(CategoryClasses(The(cfg.category)))

\* What the constructor of a plan meets: find_pod's answer (kubectl mode only)
\* and whether the configuration makes the constructor itself raise
PodFound == [kind |-> "pod", pod |-> "pod-7d4f9b-xkj2p"]
NoPod == [kind |-> "RuntimeError", pod |-> ""]

\* run --service s: CLIHandler.run_service_tests up to its try block; the plan
\* is constructed by _get_usecase_by_service, outside any try
CliRunService ==
    /\ pc = "cli" /\ ~cfg.run_all /\ ~IsNone(cfg.service)
    /\ Tick
    /\ report' = TestExecutionReport("dev", "uuid4", Now)
    /\ IF The(cfg.service) \notin DOMAIN USECASE_MAP
       THEN /\ exit_code' = Some(1)
            /\ pc' = "exited"
            /\ UNCHANGED <<usecase_classes, idx, usecase, faults, hist>>
       ELSE \E found \in IF cfg.mode = "kubectl" THEN {PodFound, NoPod} ELSE {PodFound},
               raises \in BOOLEAN :
            LET cls == USECASE_MAP[The(cfg.service)]
                cost == (IF raises THEN 1 ELSE 0) + (IF found = NoPod THEN 1 ELSE 0)
            IN  /\ faults + cost <= MaxFaults
                /\ faults' = faults + cost
                /\ usecase_classes' = <<cls>>
                /\ idx' = 1
                /\ hist' = [hist EXCEPT !.dispatched = Append(@, cls)]
                /\ IF raises
                   THEN \* the traceback ends the process
                        /\ exit_code' = Some(1)
                        /\ pc' = "exited"
                        /\ usecase' = usecase
                   ELSE /\ usecase' = Some(UseCase(cls, cfg.mode, found))
                        /\ pc' = "run_all_tests"
                        /\ exit_code' = exit_code
    /\ UNCHANGED <<cfg, results, pos, exc, call>>

\* run without --all, --service or --category
CliNoSelection ==
    /\ pc = "cli" /\ ~cfg.run_all /\ IsNone(cfg.service) /\ IsNone(cfg.category)
    /\ exit_code' = Some(1)
    /\ pc' = "exited"
    /\ UNCHANGED <<cfg, report, usecase_classes, idx, usecase, results, pos, exc, faults,
                   hist, call, clock>>

ConfigError == Exc("ValueError", Str("invalid literal for int() with base 10"))

\* `usecase = usecase_class(env_config)` inside the loop's try block
Construct ==
    /\ pc = "loop" /\ idx <= Len(usecase_classes)
    /\ \E found \in IF cfg.mode = "kubectl" THEN {PodFound, NoPod} ELSE {PodFound},
          raises \in BOOLEAN :
        LET cls == usecase_classes[idx]
            cost == (IF raises THEN 1 ELSE 0) + (IF found = NoPod THEN 1 ELSE 0)
        IN  /\ faults + cost <= MaxFaults
            /\ faults' = faults + cost
            /\ hist' = [hist EXCEPT !.dispatched = Append(@, cls)]
            /\ IF raises
               THEN /\ exc' = Some(ConfigError)
                    /\ pc' = "orch_except"
                    /\ usecase' = None
               ELSE /\ exc' = None
                    /\ usecase' = Some(UseCase(cls, cfg.mode, found))
                    /\ pc' = "run_all_tests"
    /\ UNCHANGED <<cfg, report, usecase_classes, idx, results, pos, exit_code, call, clock>>

\* The head of BaseServiceUseCase.run_all_tests: started_at, then the first phase
RunAllTestsStart_not_awaiting_connectivity ==
    /\ pc = "run_all_tests"
    /\ LET u == The(usecase)
       IN  usecase' = Some([u EXCEPT !.test_suite.started_at = Now,
                                     !.phase = "functional"])
    /\ Tick
    /\ results' = EarlyReturn(The(usecase).cls, "functional", cfg.disabled)
    /\ pos' = 1
    /\ pc' = "phase"
    /\ UNCHANGED <<cfg, report, usecase_classes, idx, exc, exit_code, faults, hist, call>>
RunAllTestsStart ==
    /\ pc = "run_all_tests"
    /\ LET u == The(usecase)
       IN  usecase' = Some([u EXCEPT !.test_suite.started_at = Now,
                                     !.phase = "connectivity"])
    /\ Tick
    /\ results' = EarlyReturn(The(usecase).cls, "connectivity", cfg.disabled)
    /\ pos' = 1
    /\ pc' = "phase"
    /\ UNCHANGED <<cfg, report, usecase_classes, idx, exc, exit_code, faults, hist, call>>

Unexpected == Exc("RuntimeError", Str("unexpected failure"))
NoneHasNoSuccess == Exc("AttributeError", Str("'NoneType' object has no attribute 'success'"))

\* One `x = await adapter.op(...); results.append(self._create_test_result(...))`
\* of the running phase, or an exception the phase's own code raises there
ProbeStep ==
    /\ pc = "phase"
    /\ LET u == The(usecase)
           probes == PhaseProbes(u.cls, u.phase, cfg.disabled)
       IN  /\ pos <= Len(probes)
           /\ LET p == probes[pos]
                  a == u.adapters[p.adapter]
              IN  \/ \E r \in Responses(a, p.op, {Str("boom")}) :
                        LET cost == IF r = Nominal(a, p.op) THEN 0 ELSE 1
                            res == Invoke(a, p.op, p.args, r)
                        IN  /\ faults + cost <= MaxFaults
                            /\ faults' = faults + cost
                            /\ usecase' = Some([u EXCEPT !.adapters[p.adapter] = res.a])
                            /\ IF res.kind = "raise" \/ IsNone(res.value)
                               THEN /\ exc' = IF res.kind = "raise" THEN res.exc
                                              ELSE Some(NoneHasNoSuccess)
                                    /\ pc' = "plan_except"
                                    /\ UNCHANGED <<results, pos>>
                                    /\ hist' = [hist EXCEPT !.phases =
                                                  Append(@, [idx |-> idx, phase |-> u.phase,
                                                             raised |-> exc', results |-> <<>>])]
                               ELSE LET rec == create_test_result(u.service_name, p.test_name,
                                                  p.category, p.protocol, The(res.value),
                                                  NoMetadata)
                                    IN  /\ results' = Append(results, rec)
                                        /\ pos' = pos + 1
                                        /\ hist' = [hist EXCEPT !.attempted =
                                                      Append(@, [idx |-> idx, record |-> rec])]
                                        /\ UNCHANGED <<exc, pc>>
                  \/ /\ faults < MaxFaults
                     /\ faults' = faults + 1
                     /\ exc' = Some(Unexpected)
                     /\ pc' = "plan_except"
                     /\ hist' = [hist EXCEPT !.phases =
                                   Append(@, [idx |-> idx, phase |-> u.phase,
                                              raised |-> Some(Unexpected), results |-> <<>>])]
                     /\ UNCHANGED <<usecase, results, pos>>
    /\ UNCHANGED <<cfg, report, usecase_classes, idx, exit_code, call, clock>>

\* `return results` of a phase and `self.test_suite.results.extend(...)`
PhaseReturn ==
    /\ pc = "phase"
    /\ LET u == The(usecase)
           probes == PhaseProbes(u.cls, u.phase, cfg.disabled)
           extended == [u EXCEPT !.test_suite.results = @ \o results]
       IN  /\ pos > Len(probes)
           /\ hist' = [hist EXCEPT !.phases =
                         Append(@, [idx |-> idx, phase |-> u.phase, raised |-> None,
                                    results |-> results])]
           /\ IF u.phase = "connectivity"
              THEN /\ usecase' = Some([extended EXCEPT !.phase = "functional"])
                   /\ results' = EarlyReturn(u.cls, "functional", cfg.disabled)
                   /\ pos' = 1
                   /\ pc' = "phase"
              ELSE /\ usecase' = Some([extended EXCEPT !.phase = "done"])
                   /\ results' = <<>>
                   /\ pos' = 0
                   /\ pc' = "plan_finally"
    /\ UNCHANGED <<cfg, report, usecase_classes, idx, exc, exit_code, faults, call, clock>>

\* The except clause of run_all_tests
PlanExcept ==
    /\ pc = "plan_except"
    /\ LET u == The(usecase)
           h == run_all_tests_except(u.test_suite, u.service_name, The(exc))
       IN  /\ usecase' = Some([u EXCEPT !.test_suite = h.suite, !.phase = "failed"])
           /\ exc' = h.raised
    /\ results' = <<>>
    /\ pos' = 0
    /\ pc' = "plan_finally"
    /\ UNCHANGED <<cfg, report, usecase_classes, idx, exit_code, faults, hist, call, clock>>

\* The finally clause of run_all_tests, then its return (or the exception
\* leaving it)
PlanFinally_at_end_of_try ==
    /\ pc = "plan_finally"
    /\ usecase' = IF The(usecase).phase = "done"
                  THEN Some([The(usecase) EXCEPT !.test_suite.completed_at = Now])
                  ELSE usecase
    /\ Tick
    /\ pc' = IF IsNone(exc) THEN "orch_append" ELSE "orch_except"
    /\ UNCHANGED <<cfg, report, usecase_classes, idx, results, pos, exc, exit_code, faults,
                   hist, call>>
PlanFinally ==
    /\ pc = "plan_finally"
    /\ usecase' = Some([The(usecase) EXCEPT !.test_suite.completed_at = Now])
    /\ Tick
    /\ pc' = IF IsNone(exc) THEN "orch_append" ELSE "orch_except"
    /\ UNCHANGED <<cfg, report, usecase_classes, idx, results, pos, exc, exit_code, faults,
                   hist, call>>

append_replacing(suites, suite) == <<suite>>

\* report.suites.append(suite)
append_suite(suites, suite) == Append(suites, suite)

\* `report.suites.append(suite)`, end of the loop body
OrchAppend ==
    /\ pc = "orch_append"
    /\ report' = [report EXCEPT !.suites = append_suite(@, The(usecase).test_suite)]
    /\ usecase' = None
    /\ idx' = idx + 1
    /\ pc' = "loop"
    /\ UNCHANGED <<cfg, usecase_classes, results, pos, exc, exit_code, faults, hist, call, clock>>

except_aborting(i, n) == n + 1

\* The orchestrator's `except Exception as e`: log, and on to the index after i
\* of the n plans
except_continue(i, n) == i + 1

OrchExcept_recording_error ==
    /\ pc = "orch_except"
    /\ hist' = [hist EXCEPT !.skipped = Append(@, [idx |-> idx, suites |-> report.suites])]
    /\ LET cls == usecase_classes[idx]
           suite == ServiceTestSuite(ServiceName(cls), Namespace(cls))
       IN  report' = [report EXCEPT !.suites =
                        append_suite(@, [suite EXCEPT !.results =
                                           <<SyntheticError(ServiceName(cls), The(exc))>>])]
    /\ exc' = None
    /\ usecase' = None
    /\ idx' = except_continue(idx, Len(usecase_classes))
    /\ pc' = "loop"
    /\ UNCHANGED <<cfg, usecase_classes, results, pos, exit_code, faults, call, clock>>

OrchExcept ==
    /\ pc = "orch_except"
    /\ hist' = [hist EXCEPT !.skipped = Append(@, [idx |-> idx, suites |-> report.suites])]
    /\ exc' = None
    /\ usecase' = None
    /\ idx' = except_continue(idx, Len(usecase_classes))
    /\ pc' = "loop"
    /\ UNCHANGED <<cfg, report, usecase_classes, results, pos, exit_code, faults, call, clock>>

\* After the loop: report.completed_at
LoopDone ==
    /\ pc = "loop" /\ idx > Len(usecase_classes)
    /\ report' = [report EXCEPT !.completed_at = Now]
    /\ Tick
    /\ pc' = "generate_report"
    /\ UNCHANGED <<cfg, usecase_classes, idx, usecase, results, pos, exc, exit_code, faults,
                   hist, call>>

exit_status_errors_only(rep) == IF total_errors(rep) > 0 THEN 1 ELSE 0

\* The last statement of `run`
exit_status(rep) == IF total_failed(rep) > 0 \/ total_errors(rep) > 0 THEN 1 ELSE 0

\* generate_report, the summary and the exit; a report that cannot be written
\* ends the process with a traceback
Finish ==
    /\ pc = "generate_report"
    /\ \E written \in BOOLEAN :
          /\ ~written => faults < MaxFaults
          /\ faults' = IF written THEN faults ELSE faults + 1
          /\ exit_code' = Some(IF written THEN exit_status(report) ELSE 1)
    /\ pc' = "exited"
    /\ UNCHANGED <<cfg, report, usecase_classes, idx, usecase, results, pos, exc, hist, call,
                   clock>>

Next ==
    \/ CliRunAll
    \/ CliRunCategory
    \/ CliRunService
    \/ CliNoSelection
    \/ Construct
    \/ RunAllTestsStart
    \/ ProbeStep
    \/ PhaseReturn
    \/ PlanExcept
    \/ PlanFinally
    \/ OrchAppend
    \/ OrchExcept
    \/ LoopDone
    \/ Finish

Spec == Init /\ [][Next]_vars

-----------------------------------------------------------------------------
(* models.py on its own: reports grown by appending suites and records *)

DefaultConfig ==
    [run_all |-> TRUE, service |-> None, category |-> None, mode |-> "direct",
     disabled |-> TRUE]

ModelInit ==
    /\ cfg = DefaultConfig
    /\ pc = "model"
    /\ IdleInit

\* report.suites.append(ServiceTestSuite(...)), as a plan's constructor builds it
AddSuite ==
    /\ pc = "model"
    /\ Len(report.suites) < MaxSuites
    /\ \E cls \in {"SchedulerUseCase", "RabbitConsumerUseCase"} :
          report' = [report EXCEPT !.suites =
                        append_suite(@, ServiceTestSuite(ServiceName(cls), Namespace(cls)))]
    /\ UNCHANGED <<cfg, pc, usecase_classes, idx, usecase, results, pos, exc, exit_code,
                   faults, hist, call, clock>>

\* The records the program creates: _create_test_result (passed, failed), the
\* synthetic record of run_all_tests (error) and _skipped (skipped)
RecordOf(service_name, status) ==
    CASE status \in {"passed", "failed"} ->
            create_test_result(service_name, "rabbitmq_connectivity", "connectivity",
                "rabbitmq",
                ConnectionResult(status = "passed", 1,
                    IF status = "passed" THEN Some(Str("Successfully connected")) ELSE None,
                    IF status = "passed" THEN None ELSE Some(Str("RabbitMQ connection failed")),
                    NoMetadata),
                NoMetadata)
      [] status = "error" -> SyntheticError(service_name, Unexpected)
      [] status = "skipped" -> Skipped(service_name, "kafka_connectivity", "kafka")

\* suite.results.append(record) on the suite appended last
AddRecord ==
    /\ pc = "model"
    /\ report.suites # <<>>
    /\ total_tests(report) < MaxRecords
    /\ \E status \in TestStatus :
          LET n == Len(report.suites)
          IN  report' = [report EXCEPT !.suites[n].results =
                            Append(@, RecordOf(report.suites[n].service_name, status))]
    /\ UNCHANGED <<cfg, pc, usecase_classes, idx, usecase, results, pos, exc, exit_code,
                   faults, hist, call, clock>>

ModelNext == AddSuite \/ AddRecord

ModelSpec == ModelInit /\ [][ModelNext]_vars

-----------------------------------------------------------------------------
(* infrastructure/: one adapter object, one call *)

AdapterInit ==
    /\ cfg \in {[DefaultConfig EXCEPT !.mode = m] : m \in {"direct", "kubectl"}}
    /\ pc = "adapter"
    /\ IdleInit

MandrillUrl == Url("https://mandrillapp.com", "https", "mandrillapp.com", None)
KmsUrl == Url("http://kms-api:8080", "http", "kms-api", Some(8080))
\* base_url values whose port urlparse reads as 0, or refuses to read
PortZeroUrl == Url("https://kms-api:0", "https", "kms-api", Some(0))
BadPortUrl == [Url("http://kms-api:99999", "http", "kms-api", None) EXCEPT !.port_invalid = TRUE]

\* The adapter objects a plan can hold: as constructed, or with the connection a
\* successful test_connectivity left open.  An HTTP adapter whose configuration
\* has no 'base_url' is exercised on the operations that build a URL from it.
AdapterObjects(op) ==
    LET k == IF cfg.mode = "kubectl"
             THEN KubectlCtx("webapp-apis", PodFound)
             ELSE None
        fresh == {Adapter("Kafka", "kafka", 9092, None, k),
                  Adapter("RabbitMQ", "rabbitmq", 5672, None, k),
                  Adapter("PostgreSQL", "core-db", 5432, None, k),
                  Adapter("SFTP", "sftp", 22, None, k),
                  HttpAdapter(MandrillUrl, k), HttpAdapter(KmsUrl, k)}
                 \cup (IF op \in {"test_endpoint", "test_health_check"}
                       THEN {Adapter("HTTP", "", 0, None, k)} ELSE {})
                 \cup (IF op = "test_connectivity" /\ ~IsNone(k)
                       THEN {Adapter("HTTP", "kms-api", 0, Some(u), k) :
                                u \in {PortZeroUrl, BadPortUrl}}
                       ELSE {})
    IN  fresh \cup {[a EXCEPT !.connection = "open"] :
                       a \in {b \in fresh : b.type # "HTTP" /\ IsNone(b.kubectl)}}

AllMethods == UNION {Methods(t) : t \in {"HTTP", "Kafka", "RabbitMQ", "PostgreSQL", "SFTP"}}

\* The argument values of a call of op
ArgValues(op) ==
    {[name |-> n, access_type |-> at, auth_config |-> ac, expected_status |-> es] :
        n \in {"probe"},
        at \in IF op = "test_topic_access" THEN {"READ", "WRITE", "ADMIN"} ELSE {"READ"},
        ac \in IF op = "test_authentication" THEN {None, Some("basic")} ELSE {None},
        es \in IF op = "test_endpoint" THEN {200, 404} ELSE {200}}

\* Exits of curl -sf --max-time 10 -w '%{http_code}' beside those of ExecHttp:
\* other 2xx and 1xx answers, and a transfer that broke after the status line
\* (28: operation timed out, 18: partial file, 23: write error)
CurlExits ==
    {Completed(0, <<"2", "0", "4">>, EmptyStr),
     Completed(0, <<"2", "9", "9", "\n">>, EmptyStr),
     Completed(0, <<"1", "0", "1">>, EmptyStr),
     Completed(28, <<"2", "0", "0">>, EmptyStr),
     Completed(18, <<"2", "0", "6">>, <<"curl: (18) transfer closed", "\n">>),
     Completed(23, <<"2", "0", "0">>, EmptyStr),
     Completed(28, <<"0", "0", "0">>, EmptyStr)}

\* Status codes on both sides of the limits the HTTP adapter tests
BoundaryResponses(a, op) ==
    IF op = "close" THEN {}
    ELSE IF a.type = "HTTP" /\ ~ViaHttp(a, op)
    THEN {Status(c) : c \in {199, 201, 399, 400, 499, 500, 599}}
    ELSE IF a.type = "HTTP"
    THEN {ViaExec(x, TcpOk) : x \in CurlExits}
    ELSE IF a.type = "Kafka" /\ op = "test_authentication"
    THEN {Resp("NoBrokersAvailable", Str("NoBrokersAvailable"))}
    ELSE {}

\* result = await adapter.op(args); close() is called on a new adapter object,
\* on one that holds a connection, or on the object the previous call left
AdapterCall ==
    /\ pc = "adapter"
    /\ \E op \in AllMethods \cup {"close"} :
       \E a \in IF op = "close"
                THEN AdapterObjects(op) \cup {The(c).result.a : c \in {call} \ {None}}
                ELSE {b \in AdapterObjects(op) : op \in Methods(b.type)} :
       \E args \in ArgValues(op) :
       \E r \in Responses(a, op, {Str("boom"), EmptyStr}) \cup BoundaryResponses(a, op) :
          call' = Some([adapter |-> a, op |-> op, args |-> args, response |-> r,
                        result |-> Invoke(a, op, args, r)])
    /\ UNCHANGED <<cfg, pc, report, usecase_classes, idx, usecase, results, pos, exc,
                   exit_code, faults, hist, clock>>

AdapterNext == AdapterCall

AdapterSpec == AdapterInit /\ [][AdapterNext]_vars

-----------------------------------------------------------------------------
(* Properties *)

Range(seq) == {seq[i] : i \in DOMAIN seq}
IsPrefix(a, b) == Len(a) <= Len(b) /\ SubSeq(b, 1, Len(a)) = a
RECURSIVE Flatten(_)
Flatten(seqs) == IF seqs = <<>> THEN <<>> ELSE Head(seqs) \o Flatten(Tail(seqs))

\* Positions <<i, j>> of the records of a report, and those with a given status
RecordsOf(rep) ==
    UNION {{<<i, j>> : j \in DOMAIN rep.suites[i].results} : i \in DOMAIN rep.suites}
WithStatus(rep, sts) == {p \in RecordsOf(rep) : rep.suites[p[1]].results[p[2]].status \in sts}

\* What the phases of the i-th dispatched plan did, in order
PhasesOf(i) ==
    LET OfPlan(e) == e.idx = i
    IN  SelectSeq(hist.phases, OfPlan)
RaisedIn(i, phase) ==
    \E k \in DOMAIN hist.phases :
        /\ hist.phases[k].idx = i /\ hist.phases[k].phase = phase
        /\ ~IsNone(hist.phases[k].raised)
Executed(i, phase) ==
    \E k \in DOMAIN hist.phases : hist.phases[k].idx = i /\ hist.phases[k].phase = phase
ReturnedBy(i, phase) ==
    LET ThisPhase(e) == e.idx = i /\ e.phase = phase /\ IsNone(e.raised)
    IN  Flatten([k \in DOMAIN SelectSeq(hist.phases, ThisPhase) |->
                    SelectSeq(hist.phases, ThisPhase)[k].results])

\* The plan at index idx has returned from run_all_tests (or its exception has
\* left run_all_tests)
PlanReturned == pc \in {"orch_append", "orch_except"} /\ ~IsNone(usecase)
RunEnded == pc \in {"generate_report", "exited"}

\* C1: in run_all_tests an exception raised by one phase never suppresses the
\* other phase: when the connectivity phase raised, the functional phase was
\* still executed and every record it returned is in the returned suite; when
\* the functional phase raised, the records the connectivity phase returned are
\* in the returned suite, in order.
C1_PhaseNeverSuppressesOther ==
    PlanReturned =>
        LET rs == The(usecase).test_suite.results
        IN  /\ RaisedIn(idx, "connectivity") =>
                  /\ Executed(idx, "functional")
                  /\ Range(ReturnedBy(idx, "functional")) \subseteq Range(rs)
            /\ RaisedIn(idx, "functional") =>
                  IsPrefix(ReturnedBy(idx, "connectivity"), rs)

\* C2: run_all_tests never propagates an exception raised by one of its phases:
\* it returns the suite, and the suite holds one synthetic error-status record
\* whose error field is the exception's message.
C2_PhaseExceptionContained ==
    /\ pc = "plan_finally" => IsNone(exc)
    /\ PlanReturned =>
          /\ pc = "orch_append"
          /\ \A k \in DOMAIN hist.phases :
                (hist.phases[k].idx = idx /\ ~IsNone(hist.phases[k].raised)) =>
                    LET rs == The(usecase).test_suite.results
                        errs == {j \in DOMAIN rs : rs[j].status = "error"}
                    IN  /\ Cardinality(errs) = 1
                        /\ \A j \in errs :
                              /\ rs[j].test_name = "test_suite_execution"
                              /\ rs[j].error = Some(The(hist.phases[k].raised).msg)

C2_Witness ==
    /\ pc = "orch_append"
    /\ RaisedIn(idx, "connectivity")
    /\ The(usecase).test_suite.results = <<SyntheticError(The(usecase).service_name, Unexpected)>>

\* The records the i-th plan's own run produced: what its phases returned, then
\* the synthetic record if one of them raised
OwnRecords(i) ==
    ReturnedBy(i, "connectivity") \o ReturnedBy(i, "functional")
    \o (IF \E k \in DOMAIN hist.phases :
              hist.phases[k].idx = i /\ ~IsNone(hist.phases[k].raised)
        THEN LET Raising(e) == e.idx = i /\ ~IsNone(e.raised)
             IN  <<SyntheticError(ServiceName(usecase_classes[i]),
                                  The(SelectSeq(hist.phases, Raising)[1].raised))>>
        ELSE <<>>)

SecondOfThreeRaised ==
    /\ RunEnded
    /\ Len(usecase_classes) = 3
    /\ hist.skipped = <<>>
    /\ RaisedIn(2, "functional")

\* C3: when three plans are dispatched and the second raises during its
\* functional phase, the report holds exactly three suites in dispatch order,
\* the second suite holds at least one error-status record, and the first and
\* third suites hold exactly the records of their own runs.
C3_PartialFailureIsolation ==
    SecondOfThreeRaised =>
        /\ Len(report.suites) = 3
        /\ \A i \in 1..3 : report.suites[i].service_name = ServiceName(usecase_classes[i])
        /\ \E j \in DOMAIN report.suites[2].results :
              report.suites[2].results[j].status = "error"
        /\ report.suites[1].results = OwnRecords(1)
        /\ report.suites[3].results = OwnRecords(3)

C3_Witness ==
    /\ SecondOfThreeRaised
    /\ pc = "exited"
    /\ Len(report.suites) = 3
    /\ report.suites[3].results # <<>>

IteratesOverPlans == cfg.run_all \/ IsNone(cfg.service)

\* The plans the orchestrator did not skip, in dispatch order
RECURSIVE NotSkipped(_)
NotSkipped(i) ==
    IF i > Len(usecase_classes) THEN <<>>
    ELSE (IF \E k \in DOMAIN hist.skipped : hist.skipped[k].idx = i
          THEN <<>> ELSE <<ServiceName(usecase_classes[i])>>) \o NotSkipped(i + 1)

\* C4: in a dispatch that iterates over several plans, an exception raised by a
\* plan's constructor or by its run_all_tests is caught by the orchestrator,
\* the plan is skipped, every later plan is still constructed and run, and the
\* suites appended before stay as they were.
C4_OrchestratorContinues ==
    IteratesOverPlans =>
        /\ \A k \in DOMAIN hist.skipped : IsPrefix(hist.skipped[k].suites, report.suites)
        /\ pc = "orch_except" => exit_code = None
        /\ RunEnded /\ usecase_classes # <<>> =>
              /\ hist.dispatched = usecase_classes
              /\ [i \in DOMAIN report.suites |-> report.suites[i].service_name]
                    = NotSkipped(1)

C4_Witness ==
    /\ pc = "exited"
    /\ Len(usecase_classes) = 3
    /\ Len(hist.skipped) = 1 /\ hist.skipped[1].idx = 2
    /\ Len(hist.skipped[1].suites) = 1
    /\ Len(report.suites) = 2
    /\ report.suites[2].results # <<>>

\* The protocols of the checks that a plan routes through the remote unit in
\* proxy mode (RabbitMQ, PostgreSQL and HTTP adapters)
ProxiedProtocols == {"rabbitmq", "postgresql", "http", "https", "elasticsearch"}

DiscoveryFailed ==
    /\ ~IsNone(usecase)
    /\ The(usecase).kubectl_mode
    /\ IsNone(The(usecase).kubectl_ctx)

\* C5: in proxy mode, when find_pod fails for a plan, the plan's phases yield
\* skipped- or error-status records for the affected checks, no exception
\* leaves the plan, and the orchestrator goes on with the next plan.
C5_DiscoveryFailureReported ==
    DiscoveryFailed =>
        /\ pc # "orch_except"
        /\ pc = "orch_append" =>
              \A j \in DOMAIN The(usecase).test_suite.results :
                  LET rec == The(usecase).test_suite.results[j]
                  IN  rec.protocol \in ProxiedProtocols =>
                          rec.status \in {"skipped", "error"}

\* C6: at the end of a run that produced its report, every record an invoked
\* probe produced is in the report, and every plan selected for dispatch has a suite with a record in
\* the report.
C6_EveryAttemptedCheckReported ==
    (RunEnded /\ ~IsNone(report.completed_at)) =>
        /\ \A k \in DOMAIN hist.attempted :
              \E p \in RecordsOf(report) :
                  report.suites[p[1]].results[p[2]] = hist.attempted[k].record
        /\ \A i \in DOMAIN hist.dispatched :
              \E n \in DOMAIN report.suites :
                  /\ report.suites[n].service_name = ServiceName(hist.dispatched[i])
                  /\ report.suites[n].results # <<>>

\* C7: the run command exits with a non-zero status whenever a record of the
\* report has status failed or error, in every dispatch mode.
C7_NonZeroExitOnFailure ==
    (pc = "exited" /\ WithStatus(report, {"failed", "error"}) # {}) =>
        /\ ~IsNone(exit_code)
        /\ The(exit_code) # 0

C7_Witness ==
    /\ pc = "exited"
    /\ WithStatus(report, {"failed"}) # {}
    /\ WithStatus(report, {"error"}) = {}
    /\ exit_code = Some(1)

\* C8: total_tests is the sum of the suites' total_count, and the status totals
\* the report exposes in its summary (passed, failed, errors and, if there is
\* one, skipped) add up to total_tests.
C8_StatusTotalsAddUp ==
    LET summary == ReportSummary(report)
        exposed == {"passed", "failed", "errors", "skipped"} \cap DOMAIN summary
        RECURSIVE Sum(_)
        Sum(keys) == IF keys = {} THEN 0
                     ELSE LET k == CHOOSE x \in keys : TRUE
                          IN  summary[k] + Sum(keys \ {k})
    IN  /\ total_tests(report) = Cardinality(RecordsOf(report))
        /\ summary.total_tests = total_tests(report)
        /\ Sum(exposed) = summary.total_tests

IsRate(rate, passed, total) ==
    IF total = 0 THEN rate = <<0, 1>>
    ELSE rate[2] > 0 /\ rate[1] * total = passed * 100 * rate[2]

\* C9: success_rate is 0 for a suite without results and passed/total*100
\* otherwise, passed being the number of records with status passed; the same
\* for the report's overall_success_rate over all the suites.
C9_SuccessRates ==
    /\ \A i \in DOMAIN report.suites :
          LET rs == report.suites[i].results
          IN  IsRate(success_rate(report.suites[i]),
                     Cardinality({j \in DOMAIN rs : rs[j].status = "passed"}), Len(rs))
    /\ IsRate(overall_success_rate(report),
              Cardinality(WithStatus(report, {"passed"})), Cardinality(RecordsOf(report)))

C9_Witness ==
    /\ Len(report.suites) = 2
    /\ report.suites[1].results = <<>>
    /\ success_rate(report.suites[1]) = <<0, 1>>
    /\ Len(report.suites[2].results) = 3
    /\ success_rate(report.suites[2]) = <<100, 3>>
    /\ WithStatus(report, {"skipped"}) # {}

\* C10: every adapter operation returns an Outcome for every argument and every
\* failure underneath: it does not raise, does not return a non-Outcome, and a
\* failed Outcome has a non-empty error that retains the underlying message.
C10_AlwaysAnOutcome ==
    ~IsNone(call) /\ The(call).op # "close" =>
        LET c == The(call)
        IN  /\ c.result.kind = "return"
            /\ ~IsNone(c.result.value)
            /\ ~The(c.result.value).success =>
                  /\ ~IsNone(The(c.result.value).error)
                  /\ The(The(c.result.value).error) # EmptyStr
                  /\ (c.response.kind \notin {"ok", "response"} /\ IsNone(c.adapter.kubectl)) =>
                        Contains(The(The(c.result.value).error), c.response.msg)

\* The call under study is a round-trip probe
RoundTripCall == ~IsNone(call) /\ IsRoundTrip(The(call).op)
RoundTripOutcome == The(The(call).result.value)
\* The tokens of the payloads the probe read back: KafkaConsumer is iterated to
\* its end, basic_get fetches one message
TokensRead ==
    LET c == The(call)
    IN  IF ~IsNone(c.adapter.kubectl) /\ c.adapter.type = "RabbitMQ" THEN {}
        ELSE IF c.response.kind # "ok" THEN {}
        ELSE IF c.adapter.type = "RabbitMQ"
        THEN {c.response.read[i] : i \in DOMAIN c.response.read \cap {1}}
        ELSE Range(c.response.read)
TokenSent == <<"test_", ToString(The(call).response.now_ms)>>

\* C11: a round-trip probe returns success only if a payload whose token is the
\* token generated by that invocation was read back, in direct mode and in
\* proxy mode.
C11_SuccessOnlyWithOwnToken ==
    RoundTripCall =>
        (RoundTripOutcome.success => TokenSent \in TokensRead)

\* The write of the round-trip probe went through (direct mode)
WriteSucceeded ==
    LET c == The(call)
    IN  /\ c.response.kind \in {"ok", "read_error"}
        /\ c.adapter.type = "RabbitMQ" =>
              /\ IsNone(c.adapter.kubectl)
              /\ c.result.a.connection = "open"

NotConsumedTexts ==
    {"Message produced but not consumed on topic",
     "Message published but not consumed on queue"}

\* C12: when the write of a round-trip probe succeeds and no payload with the
\* matching token is observed on the read side (nothing read, other tokens
\* only, or the read side failing), the Outcome is the 'produced/published but
\* not consumed' failure, not the generic 'test failed' error.
C12_ReadSideFailureIsDistinct ==
    (RoundTripCall /\ WriteSucceeded /\ TokenSent \notin TokensRead) =>
        /\ ~RoundTripOutcome.success
        /\ ~IsNone(RoundTripOutcome.error)
        /\ The(RoundTripOutcome.error)[1] \in NotConsumedTexts

DirectHttpConnectivity ==
    /\ ~IsNone(call)
    /\ The(call).adapter.type = "HTTP"
    /\ The(call).op = "test_connectivity"
    /\ IsNone(The(call).adapter.kubectl)

\* C13: HTTPAdapter.test_connectivity in direct mode, answered with status s,
\* succeeds exactly when s < 500; for s >= 500 the error holds the decimal
\* status code; a timeout or a connection error gives success = false.
C13_OnlyServerErrorsFail ==
    DirectHttpConnectivity =>
        LET c == The(call)
            o == The(c.result.value)
            s == c.response.status_code
        IN  /\ c.result.kind = "return" /\ ~IsNone(c.result.value)
            /\ c.response.kind = "response" =>
                  /\ o.success <=> s < 500
                  /\ s >= 500 =>
                        /\ ~IsNone(o.error)
                        /\ \E i \in DOMAIN The(o.error) : The(o.error)[i] = ToString(s)
            /\ c.response.kind \in {"Timeout", "ConnectionError"} => ~o.success

C13_Witness ==
    /\ DirectHttpConnectivity
    /\ The(call).response.kind = "response"
    /\ The(call).response.status_code = 404
    /\ The(The(call).result.value).success

\* A call of test_http in which kubectl exec ran curl to its end
TestHttpCall ==
    /\ ~IsNone(call)
    /\ The(call).adapter.type = "HTTP" /\ The(call).op = "test_connectivity"
    /\ ~IsNone(The(call).adapter.kubectl)
    /\ The(call).response.exec.kind = "completed"
    /\ The(call).result.kind = "return" /\ ~IsNone(The(call).result.value)

\* The TCP probe test_http made, read from the metadata test_tcp writes
TcpProbed(o) == {"host", "port"} \subseteq DOMAIN o.metadata

\* o is the verdict of the TCP probe of host:port that kubectl exec answered with x
TcpVerdict(o, ctx, host, port, x) ==
    LET t == test_tcp(ctx, host, port, x)
    IN  /\ TcpProbed(o) /\ o.metadata.host = host /\ o.metadata.port = port
        /\ o.success = t.success /\ o.error = t.error /\ o.duration_ms = t.duration_ms
        /\ "fallback" \in DOMAIN o.metadata /\ o.metadata.fallback # EmptyStr
        /\ "url" \in DOMAIN o.metadata

\* C14 as stated: curl exit code 127 gives one TCP probe of the URL's own host
\* and port (the explicit port, else 443 for https and 80 otherwise), whose
\* verdict is returned with the fallback reason and the URL in the metadata;
\* any other exit code gives no TCP probe.
C14_FallbackOn127 ==
    TestHttpCall =>
        LET c == The(call)  o == The(c.result.value)  url == The(c.adapter.base_url)
            port == IF ~IsNone(url.port) THEN The(url.port)
                    ELSE IF url.scheme = "https" THEN 443 ELSE 80
        IN  IF c.response.exec.rc = 127
            THEN /\ TcpVerdict(o, The(c.adapter.kubectl), UrlHost(url), port, c.response.exec2)
                 /\ o.metadata.url = url
            ELSE ~TcpProbed(o)

\* C14, as the code has it: the fallback probes the explicit port when it is a
\* number in 1..65535, the scheme's default port when the URL has no port or
\* port 0, and makes no TCP probe at all, returning a failure that names the
\* failed fallback, when the port cannot be read.
C14_FallbackOn127WithReadablePort ==
    TestHttpCall =>
        LET c == The(call)  o == The(c.result.value)  url == The(c.adapter.base_url)
            port == IF ~IsNone(url.port) /\ The(url.port) # 0 THEN The(url.port)
                    ELSE IF url.scheme = "https" THEN 443 ELSE 80
        IN  IF c.response.exec.rc # 127 THEN ~TcpProbed(o) /\ "fallback" \notin DOMAIN o.metadata
            ELSE IF UrlPortInvalid(url)
            THEN /\ ~TcpProbed(o) /\ ~o.success /\ Truthy(o.error)
                 /\ o.metadata.url = url
            ELSE /\ TcpVerdict(o, The(c.adapter.kubectl), UrlHost(url), port, c.response.exec2)
                 /\ o.metadata.url = url

C14_Witness ==
    /\ TestHttpCall /\ The(call).response.exec.rc = 127
    /\ The(call).adapter.base_url = Some(MandrillUrl)
    /\ The(The(call).result.value).success
    /\ The(The(call).result.value).metadata.port = 443

\* The status code curl captured is 2xx
Captured2xx(x) ==
    LET code == Strip(x.stdout) IN Len(code) = 3 /\ code[1] = "2"

\* C15 as stated: with an exit code other than 127, test_http succeeds exactly
\* when the captured status code is 2xx, whatever the exit code.
C15_SuccessIff2xx ==
    TestHttpCall /\ The(call).response.exec.rc # 127 =>
        (The(The(call).result.value).success <=> Captured2xx(The(call).response.exec))

\* C15, as the code has it: with an exit code other than 127, test_http succeeds
\* exactly when the exit code is 0 and the captured status code is 2xx.
C15_SuccessIffExitZeroAnd2xx ==
    TestHttpCall /\ The(call).response.exec.rc # 127 =>
        (The(The(call).result.value).success <=>
            The(call).response.exec.rc = 0 /\ Captured2xx(The(call).response.exec))

C15_Witness ==
    /\ TestHttpCall /\ The(call).response.exec.rc = 0
    /\ Strip(The(call).response.exec.stdout) = <<"2", "9", "9">>
    /\ The(The(call).result.value).success

\* A probe that went through kubectl exec: test_tcp for RabbitMQ and PostgreSQL,
\* test_http for HTTP
ExecProbeCall ==
    /\ ~IsNone(call)
    /\ The(call).op = "test_connectivity"
    /\ ViaTcp(The(call).adapter, The(call).op) \/ ViaHttp(The(call).adapter, The(call).op)

\* The kubectl exec of the call that ran out of its 30 seconds, if one did:
\* the first, or the TCP probe that follows curl's exit code 127
TimedOutExec ==
    LET r == The(call).response
    IN  IF r.exec.kind = "TimeoutExpired" THEN {r.exec}
        ELSE IF /\ ViaHttp(The(call).adapter, The(call).op) /\ r.exec.kind = "completed"
                /\ r.exec.rc = 127 /\ ~UrlPortInvalid(The(The(call).adapter.base_url))
                /\ r.exec2.kind = "TimeoutExpired"
             THEN {r.exec2}
             ELSE {}

\* C16: a kubectl exec that exceeds its time bound makes exec_command return a
\* triple with a non-zero exit code, empty stdout and a non-empty stderr, never
\* an exception; test_tcp and test_http then return a failed Outcome.
C16_TimeoutIsAFailedOutcome ==
    ExecProbeCall =>
        \A x \in TimedOutExec :
            /\ IsNone(exec_command(x).raised)
            /\ exec_command(x).rc # 0
            /\ exec_command(x).stdout = EmptyStr
            /\ exec_command(x).stderr # EmptyStr
            /\ The(call).result.kind = "return" /\ ~IsNone(The(call).result.value)
            /\ ~The(The(call).result.value).success
            /\ The(The(call).result.value).error = Some(exec_command(x).stderr)

C16_Witness ==
    /\ ExecProbeCall /\ The(call).adapter.type = "PostgreSQL"
    /\ The(call).response.exec.kind = "TimeoutExpired"
    /\ ~The(The(call).result.value).success

\* The call under study is close()
CloseCall == ~IsNone(call) /\ The(call).op = "close"

\* C17: close() of every adapter type never raises, whatever state the adapter
\* is in (never connected, connected, already closed) and whatever the close of
\* the underlying client does, and leaves the adapter with no open transport.
C17_CloseNeverRaisesAndReleases ==
    CloseCall =>
        /\ The(call).result.kind = "return"
        /\ The(call).result.a.connection # "open"

\* The adapters of the plan that hold an open connection
OpenAdapters(u) == {n \in DOMAIN u.adapters : u.adapters[n].connection = "open"}

\* C18: when a plan is finished (its phases returned, one of them raised, or the
\* orchestrator skipped it) close() has been called on each of its adapters, so
\* the orchestrator lets go of no plan one of whose adapters still holds an
\* open connection.
C18_AdaptersClosedAtTeardown ==
    [][(~IsNone(usecase) /\ IsNone(usecase')) => OpenAdapters(The(usecase)) = {}]_vars

\* A connectivity or functional probe of an adapter object that was constructed,
\* never yet connected, with the '_kubectl' context in its configuration
ProbeWithContext ==
    /\ ~IsNone(call) /\ cfg.mode = "kubectl"
    /\ The(call).op \notin {"close", "test_authentication"}
    /\ The(call).adapter.connection = "none"

\* The Outcome carries the mark every path through the remote executor leaves
ThroughExecutor(res) ==
    /\ res.kind = "return" /\ ~IsNone(res.value)
    /\ "mode" \in DOMAIN The(res.value).metadata
    /\ The(res.value).metadata.mode = Str("kubectl")

\* C19: an adapter constructed with the remote-execution context performs
\* test_connectivity and its functional probes through the remote executor and
\* opens no direct connection, whatever its type (HTTP, RabbitMQ, PostgreSQL,
\* Kafka, SFTP).
C19_ProbesGoThroughExecutor ==
    ProbeWithContext =>
        /\ ThroughExecutor(The(call).result)
        /\ The(call).result.a.connection # "open"

\* The plans whose registration carries the category: the list a plan is
\* registered in (_CFK_USECASES, _CORE_USECASES) is the only grouping the
\* registrations have
Tagged(category) ==
    {cls \in Range(CFK_USECASES) : category = "cfk"}
        \cup {cls \in Range(CORE_USECASES) : category = "core"}

CategoryDispatch == ~cfg.run_all /\ IsNone(cfg.service) /\ ~IsNone(cfg.category)

\* C20: run --category c constructs and runs the plans registered with the
\* category c and no other plan, for every value of c the command accepts.
C20_CategoryRunsTaggedPlansOnly ==
    CategoryDispatch =>
        /\ Range(hist.dispatched) \subseteq Tagged(The(cfg.category))
        /\ RunEnded => Range(hist.dispatched) = Tagged(The(cfg.category))

\* Both timestamps of a suite are set
Stamped(suite) == ~IsNone(suite.started_at) /\ ~IsNone(suite.completed_at)

\* C21: run_all_tests sets started_at before any phase executes and
\* completed_at before it returns, whichever phase raised: a returned suite has
\* both timestamps, and completed_at is not written while records (the
\* synthetic error record included) can still be appended.
C21_SuiteTimestamps ==
    /\ ~IsNone(usecase) =>
          LET suite == The(usecase).test_suite
          IN  /\ pc \in {"phase", "plan_except", "plan_finally"} =>
                    ~IsNone(suite.started_at) /\ IsNone(suite.completed_at)
              /\ pc \in {"orch_append", "orch_except"} => Stamped(suite)
    /\ \A i \in DOMAIN report.suites : Stamped(report.suites[i])

C21_Witness ==
    /\ pc = "orch_append"
    /\ \E j \in DOMAIN The(usecase).test_suite.results :
          The(usecase).test_suite.results[j].test_name = "test_suite_execution"
    /\ Stamped(The(usecase).test_suite)

\* c is a round-trip probe that went as far as generating its test_id (here:
\* one whose write and read both ended normally)
GeneratesToken(c) ==
    /\ ~IsNone(c) /\ IsRoundTrip(The(c).op)
    /\ IsNone(The(c).adapter.kubectl)
    /\ The(c).response.kind = "ok"
    /\ The(c).result.a.connection = "open" \/ The(c).adapter.type = "Kafka"

\* C22: two invocations of a round-trip probe, on the same adapter or on two,
\* at any clock readings, generate two different tokens.
C22_TokensAreUnique ==
    [][(GeneratesToken(call) /\ GeneratesToken(call'))
          => TestId(The(call).response.now_ms) # TestId(The(call').response.now_ms)]_vars

\* The call under study is test_authentication
AuthCall == ~IsNone(call) /\ The(call).op = "test_authentication"

\* What each client raises when nothing answers at the target's address
UnreachableKinds(type) ==
    CASE type = "HTTP" -> {"ConnectionError", "Timeout"}
      [] type = "Kafka" -> {"NoBrokersAvailable"}
      [] type = "RabbitMQ" -> {"AMQPConnectionError"}
      [] type = "PostgreSQL" -> {"OperationalError"}
      [] type = "SFTP" -> {"SSHException"}

\* The answer c met is that of an unreachable target: curl exit 7, the TCP
\* probe echoing "fail", or the client's connection exception
TargetUnreachable(c) ==
    IF ViaHttp(c.adapter, c.op)
    THEN c.response.exec.kind = "completed" /\ c.response.exec.rc = 7
    ELSE IF ViaTcp(c.adapter, c.op)
    THEN /\ c.response.exec.kind = "completed" /\ c.response.exec.rc = 0
         /\ ~Contains(c.response.exec.stdout, Str("ok"))
    ELSE /\ c.response.kind \in UnreachableKinds(c.adapter.type)
         /\ ~Contains(c.response.msg, Str("authentication failed"))

\* The answers of a target that is reached and rejects the credentials: 401 or
\* 403, the broker's or server's refusal, and for the TCP probe (which presents
\* no credentials) an open port.  KafkaProducer reports a refused SASL
\* handshake as it reports an absent broker.
RejectedAnswers(c) ==
    IF ViaHttp(c.adapter, c.op)
    THEN {ViaExec(Completed(22, code, EmptyStr), TcpOk) :
             code \in {<<"4", "0", "1">>, <<"4", "0", "3">>}}
    ELSE IF ViaTcp(c.adapter, c.op) THEN {ViaExec(TcpOk, TcpOk)}
    ELSE CASE c.adapter.type = "HTTP" -> {Status(401), Status(403)}
           [] c.adapter.type = "Kafka" -> {Resp("NoBrokersAvailable", c.response.msg)}
           [] c.adapter.type = "RabbitMQ" ->
                {Resp("ProbableAuthenticationError", c.response.msg)}
           [] c.adapter.type = "PostgreSQL" ->
                {Resp("OperationalError", Str("password authentication failed for user"))}
           [] c.adapter.type = "SFTP" -> {Resp("AuthenticationException", c.response.msg)}

\* C23: the Outcome test_authentication produces for an unreachable target
\* differs, in its error text or its metadata, from the Outcome the same call
\* produces for a target that was reached and rejected the credentials, for
\* each adapter, in direct and in proxy mode.
C23_UnreachableDiffersFromRejected ==
    (AuthCall /\ TargetUnreachable(The(call))) =>
        LET c == The(call)  o == The(c.result.value)
        IN  \A r \in RejectedAnswers(c) :
               LET o2 == The(Invoke(c.adapter, c.op, c.args, r).value)
               IN  o.error # o2.error \/ o.metadata # o2.metadata

C25_AppendOnly ==
    [][/\ IsPrefix(report.suites, report'.suites)
       /\ (~IsNone(usecase) /\ ~IsNone(usecase')) =>
             IsPrefix(The(usecase).test_suite.results, The(usecase').test_suite.results)]_vars

C25_Witness ==
    /\ Len(report.suites) = 2
    /\ pc = "plan_finally"
    /\ Len(The(usecase).test_suite.results) >= 2
    /\ The(usecase).phase = "failed"

\* C26: an Outcome is not changed after the operation that created it returned
\* it: what proxy-mode test_authentication returns is the Outcome
\* test_connectivity returned, as it was returned, and what test_http returns
\* after curl's exit code 127 is the Outcome test_tcp returned, as it was
\* returned.
C26_OutcomeNeverMutated ==
    (~IsNone(call) /\ The(call).result.kind = "return" /\ ~IsNone(The(call).result.value)) =>
        LET c == The(call)  o == The(c.result.value)
        IN  /\ (c.op = "test_authentication" /\ ~IsNone(c.adapter.kubectl)) =>
                  o = The(Invoke(c.adapter, "test_connectivity", c.args, c.response).value)
            /\ (TestHttpCall /\ c.response.exec.rc = 127
                  /\ ~UrlPortInvalid(The(c.adapter.base_url))) =>
                  o = test_tcp(The(c.adapter.kubectl), UrlHost(The(c.adapter.base_url)),
                               UrlPort(The(c.adapter.base_url)), c.response.exec2)

\* Metadata a plan may hand to _create_test_result next to the Outcome
PlanMetadata == {NoMetadata, [mode |-> Str("plan")], [mode |-> Str("plan"), queue |-> Str("plan")]}

\* The record `o` and plan metadata `m` must give for the plan `service_name`
DerivedFrom(rec, o, service_name, m) ==
    /\ rec.status = (IF o.success THEN "passed" ELSE "failed")
    /\ rec.duration_ms = o.duration_ms /\ rec.message = o.message /\ rec.error = o.error
    /\ rec.service_name = service_name
    /\ DOMAIN rec.metadata = DOMAIN o.metadata \cup DOMAIN m
    /\ \A k \in DOMAIN rec.metadata : rec.metadata[k] = (IF k \in DOMAIN m THEN m[k] ELSE o.metadata[k])

ProbeRecorded == pc = "phase" /\ pc' = "phase" /\ Len(results') = Len(results) + 1

\* C27: the record a plan appends after a probe is derived from the one Outcome
\* that probe returned: passed exactly when success, failed otherwise, the
\* duration, message and error of the Outcome, the plan's service name, and the
\* Outcome's metadata overridden key by key by the metadata the plan supplies.
C27_RecordDerivedFromOneOutcome ==
    [][ProbeRecorded =>
         LET u == The(usecase)
             p == PhaseProbes(u.cls, u.phase, cfg.disabled)[pos]
             a == u.adapters[p.adapter]
             rec == results'[Len(results')]
         IN  \E r \in Responses(a, p.op, {Str("boom")}) :
                LET res == Invoke(a, p.op, p.args, r)
                IN  /\ res.kind = "return" /\ ~IsNone(res.value)
                    /\ The(usecase').adapters[p.adapter] = res.a
                    /\ DerivedFrom(rec, The(res.value), u.service_name, NoMetadata)
                    /\ rec.test_name = p.test_name /\ rec.category = p.category
                    /\ rec.protocol = p.protocol
                    /\ \A m \in PlanMetadata :
                          DerivedFrom(create_test_result(u.service_name, p.test_name, p.category,
                                                         p.protocol, The(res.value), m),
                                      The(res.value), u.service_name, m)]_vars

C27_Witness ==
    /\ pc = "phase" /\ results # <<>>
    /\ results[Len(results)].status = "failed"
    /\ "mode" \in DOMAIN results[Len(results)].metadata
    /\ ~IsNone(results[Len(results)].error)
\* The last statement of `run` is reached: the report was written
LastStatement == pc = "generate_report" /\ pc' = "exited" /\ faults' = faults

Digits(n) == <<ToString(n \div 100), ToString((n \div 10) % 10), ToString(n % 10)>>
CurlFor(status_code) == Completed(IF status_code >= 400 THEN 22 ELSE 0, Digits(status_code), EmptyStr)

DirectHttpAnswered ==
    /\ ~IsNone(call)
    /\ The(call).adapter.type = "HTTP" /\ The(call).op = "test_connectivity"
    /\ IsNone(The(call).adapter.kubectl) /\ The(call).response.kind = "response"
    /\ The(call).result.kind = "return" /\ ~IsNone(The(call).result.value)

\* C29: for one status code (2xx to 5xx) the server answers with, HTTPAdapter.test_connectivity
\* gives the same success in direct mode as through KubectlAdapter.test_http in
\* proxy mode.
C29_SameVerdictInBothModes ==
    (DirectHttpAnswered /\ The(call).response.status_code \in 200..599) =>
        LET c == The(call)
            ctx == The(KubectlCtx("webapp-apis", PodFound))
            proxy == test_http(ctx, The(c.adapter.base_url), CurlFor(c.response.status_code), TcpOk)
        IN  The(c.result.value).success = proxy.success
StubbedCall ==
    /\ ~IsNone(call) /\ ~IsNone(The(call).adapter.kubectl)
    /\ \/ The(call).adapter.type = "RabbitMQ"
          /\ The(call).op \in {"test_queue_access", "test_publish_consume"}
       \/ The(call).adapter.type = "PostgreSQL"
          /\ The(call).op \in {"test_table_access", "test_query_performance"}

\* Every state the dependency and the pod can be in when the probe is called
DependencyStates(a, op) ==
    Responses([a EXCEPT !.kubectl = None], op, {Str("boom")})
        \cup {ViaExec(x, TcpOk) : x \in ExecTcp}

\* C30: in proxy mode the functional probes that cannot be emulated (RabbitMQ
\* test_queue_access and test_publish_consume, PostgreSQL test_table_access and
\* test_query_performance) run no remote command and open no connection, and
\* return success with duration 0 whatever the state of the dependency, so the
\* record a plan derives from them has status passed, never skipped.
C30_StubbedProbesPass ==
    StubbedCall =>
        LET c == The(call)
        IN  /\ c.result.kind = "return" /\ ~IsNone(c.result.value)
            /\ The(c.result.value).success /\ The(c.result.value).duration_ms = 0
            /\ c.result.a = c.adapter /\ c.result.a.connection # "open"
            /\ \A r \in DependencyStates(c.adapter, c.op) :
                  Invoke(c.adapter, c.op, c.args, r) = c.result
            /\ create_test_result("core-api", "probe", "functional", "amqp",
                                  The(c.result.value), NoMetadata).status = "passed"

C30_Witness ==
    /\ StubbedCall /\ The(call).op = "test_query_performance"
    /\ The(call).result.kind = "return"
    /\ The(The(call).result.value).metadata.mode = Str("kubectl")
====
